---- MODULE Spec2Model ----
(***************************************************************************)
(* Model of the gerbers semantic parser (src/src/lib.rs).                  *)
(*                                                                         *)
(* A syntax node (pest Pair) is a record [rule, str, inner]: its rule      *)
(* name, the text of its span and the sequence of its child nodes.  The    *)
(* text of a span is a sequence of chunks; a token the parser converts     *)
(* (numerals, unit / polarity / mirroring letters) is written one          *)
(* character per chunk so that the conversions are computed character by   *)
(* character, a text the parser only copies is written as one chunk.       *)
(*                                                                         *)
(* Option<T> is a sequence of length at most one: <<>> is None and <<v>>   *)
(* is Some(v).  A Result<T, _> of a numeral conversion is modelled the     *)
(* same way: <<>> is Err and <<v>> is Ok(v).                               *)
(***************************************************************************)
EXTENDS Integers, Sequences, FiniteSets, TLC

VARIABLES pc, doc, idx, commands, origins, visited, result, ret, error,
          visualizer, locals, canvas

vars == <<pc, doc, idx, commands, origins, visited, result, ret, error,
          visualizer, locals, canvas>>

\* the state of the visualizer: the fields of a GerberVisualizer, the locals
\* of visualize_gerber, and the draw calls made on the draw handle
render_vars == <<visualizer, locals, canvas>>

\* no GerberVisualizer exists while the parser runs
NoVisualizer ==
    /\ visualizer = <<>>
    /\ locals = <<>>
    /\ canvas = <<>>

(***************************************************************************)
(* Bounds of the model.                                                    *)
(***************************************************************************)
\* largest number of child nodes of the root in an explored document
MaxNodes == 2

(***************************************************************************)
(* Characters and numerals.                                                *)
(***************************************************************************)
DigitChars == <<"0", "1", "2", "3", "4", "5", "6", "7", "8", "9">>

IsDigit(c) == \E k \in 1..10 : DigitChars[k] = c

DigitVal(c) == (CHOOSE k \in 1..10 : DigitChars[k] = c) - 1

LowerChars == <<"a", "b", "c", "d", "e", "f", "g", "h", "i", "j", "k", "l", "m",
                "n", "o", "p", "q", "r", "s", "t", "u", "v", "w", "x", "y", "z">>

UpperChars == <<"A", "B", "C", "D", "E", "F", "G", "H", "I", "J", "K", "L", "M",
                "N", "O", "P", "Q", "R", "S", "T", "U", "V", "W", "X", "Y", "Z">>

\* char::to_uppercase on the ASCII letters
UpperChar(c) ==
    IF \E k \in 1..26 : LowerChars[k] = c
    THEN UpperChars[CHOOSE k \in 1..26 : LowerChars[k] = c]
    ELSE c

\* str::to_uppercase
to_uppercase(s) == [k \in 1..Len(s) |-> UpperChar(s[k])]

\* str::trim_start_matches(c)
RECURSIVE trim_start_matches(_, _)
trim_start_matches(s, c) ==
    IF s # <<>> /\ Head(s) = c THEN trim_start_matches(Tail(s), c) ELSE s

I32Max == 2147483647
I32Min == (-2147483647) - 1
U8Max  == 255

\* ceiling of a / 10 for a <= 0
CeilDiv10(a) == -((-a) \div 10)

\* checked accumulation of decimal digits towards +infinity, limit max
RECURSIVE AccPos(_, _, _)
AccPos(s, acc, max) ==
    IF s = <<>> THEN <<acc>>
    ELSE IF ~IsDigit(Head(s)) THEN <<>>
    ELSE IF acc > (max - DigitVal(Head(s))) \div 10 THEN <<>>
    ELSE AccPos(Tail(s), acc * 10 + DigitVal(Head(s)), max)

\* checked accumulation of decimal digits towards -infinity, limit min
RECURSIVE AccNeg(_, _, _)
AccNeg(s, acc, min) ==
    IF s = <<>> THEN <<acc>>
    ELSE IF ~IsDigit(Head(s)) THEN <<>>
    ELSE IF acc < CeilDiv10(min + DigitVal(Head(s))) THEN <<>>
    ELSE AccNeg(Tail(s), acc * 10 - DigitVal(Head(s)), min)

\* parse_i32 with a numeral beyond the range clamped to the nearest end
parse_i32_saturating(s) ==
    LET digits == IF s # <<>> /\ Head(s) \in {"-", "+"} THEN Tail(s) ELSE s
        numeral == digits # <<>> /\ \A k \in 1..Len(digits) : IsDigit(digits[k])
    IN  IF s = <<>> THEN <<>>
        ELSE IF Head(s) = "-"
        THEN (IF ~numeral THEN <<>>
              ELSE IF AccNeg(digits, 0, I32Min) = <<>> THEN <<I32Min>>
              ELSE AccNeg(digits, 0, I32Min))
        ELSE (IF ~numeral THEN <<>>
              ELSE IF AccPos(digits, 0, I32Max) = <<>> THEN <<I32Max>>
              ELSE AccPos(digits, 0, I32Max))

\* <i32 as FromStr>::from_str : optional sign, one or more digits, in range
parse_i32(s) ==
    IF s = <<>> THEN <<>>
    ELSE IF Head(s) = "-" THEN (IF Tail(s) = <<>> THEN <<>> ELSE AccNeg(Tail(s), 0, I32Min))
    ELSE IF Head(s) = "+" THEN (IF Tail(s) = <<>> THEN <<>> ELSE AccPos(Tail(s), 0, I32Max))
    ELSE AccPos(s, 0, I32Max)

\* from_str of an unsigned type with largest value max: optional "+", digits
parse_unsigned(s, max) ==
    IF s = <<>> THEN <<>>
    ELSE IF Head(s) = "+" THEN (IF Tail(s) = <<>> THEN <<>> ELSE AccPos(Tail(s), 0, max))
    ELSE AccPos(s, 0, max)

\* <u8 as FromStr>::from_str
parse_u8(s) == parse_unsigned(s, U8Max)

\* <u32 as FromStr>::from_str; numerals above I32Max are outside the
\* explored inputs (the model's integers are 32 bit signed)
parse_u32_str(s) == parse_unsigned(s, I32Max)

(***************************************************************************)
(* Floating point numerals.  An f64 is modelled by the decimal it was      *)
(* written as: [m, e] stands for m * 10^(-e), normalised so that equal     *)
(* decimals have equal representations (0.010 = 0.01).  Exponent, "inf"    *)
(* and "nan" forms are outside the explored inputs.                        *)
(***************************************************************************)
RECURSIVE Normalise(_, _)
Normalise(m, e) ==
    IF m = 0 THEN [m |-> 0, e |-> 0]
    ELSE IF e > 0 /\ m % 10 = 0 THEN Normalise(m \div 10, e - 1)
    ELSE [m |-> m, e |-> e]

F64(m, e) == Normalise(m, e)

F64Zero == F64(0, 0)

\* position of the first "." of s, or Len(s) + 1
RECURSIVE DotPos(_, _)
DotPos(s, k) ==
    IF k > Len(s) THEN k
    ELSE IF s[k] = "." THEN k
    ELSE DotPos(s, k + 1)

\* <f64 as FromStr>::from_str on plain decimals: optional sign, digits with
\* at most one ".", at least one digit
parse_f64_str(s) ==
    LET neg  == s # <<>> /\ Head(s) = "-"
        body == IF s # <<>> /\ Head(s) \in {"-", "+"} THEN Tail(s) ELSE s
        dot  == DotPos(body, 1)
        ip   == SubSeq(body, 1, dot - 1)
        fp   == SubSeq(body, dot + 1, Len(body))
        digs == ip \o fp
        mag  == AccPos(digs, 0, I32Max)
    IN  IF digs = <<>> \/ mag = <<>> THEN <<>>
        ELSE <<F64(IF neg THEN -mag[1] ELSE mag[1], Len(fp))>>

(***************************************************************************)
(* Errors, results and the command vector.                                 *)
(***************************************************************************)
\* GerberError::SemanticError(msg)
SemanticError(msg) == [kind |-> "SemanticError", msg |-> msg]

NoError == [kind |-> "None", msg |-> <<>>]

\* the caller's command vector, with the path of the node each command
\* was pushed for (history variable, not read by the parser)
Vec(cmds, orig) == [commands |-> cmds, origins |-> orig]

\* Push with the command inserted at the front, as Vec::insert(0, ..) would
Push_front(st, cmd, path) == Vec(<<cmd>> \o st.commands, <<path>> \o st.origins)

\* Vec::push
Push(st, cmd, path) == Vec(Append(st.commands, cmd), Append(st.origins, path))

\* Ok(()) with the vector as the call leaves it
OkR(st) == [ok |-> TRUE, commands |-> st.commands, origins |-> st.origins, err |-> NoError]

\* Err(e) with the vector as the call leaves it
ErrR(st, e) == [ok |-> FALSE, commands |-> st.commands, origins |-> st.origins, err |-> e]

None == <<>>
Some(v) == <<v>>

(***************************************************************************)
(* parse_pair, one operator per match arm.                                 *)
(***************************************************************************)
arm_g04(pair, path, st) ==
    LET arguments == pair.inner
    IN  IF Len(arguments) < 1
        THEN ErrR(st, SemanticError(<<"No comment was detected for G04.">>))
        ELSE IF Len(arguments) > 1
        THEN ErrR(st, SemanticError(<<"Unexpected additional arguments for G04 command.">>))
        ELSE OkR(Push(st, [cmd |-> "G04", text |-> arguments[1].str], path))

\* arm_mo with the unit compared without to_uppercase
arm_mo_case_sensitive(pair, path, st) ==
    LET arguments == pair.inner
        unit_str  == arguments[1].str
    IN  IF Len(arguments) < 1
        THEN ErrR(st, SemanticError(<<"No unit was specified for MO command.">>))
        ELSE IF unit_str # <<"M", "M">> /\ unit_str # <<"I", "N">>
        THEN ErrR(st, SemanticError(<<"Unrecognized unit: ">> \o unit_str))
        ELSE IF Len(arguments) > 1
        THEN ErrR(st, SemanticError(<<"Unexpected additional arguments for MO command.">>))
        ELSE OkR(Push(st, [cmd |-> "MO",
                           unit |-> IF unit_str = <<"M", "M">> THEN "Millimeters" ELSE "Inches"],
                      path))

arm_mo(pair, path, st) ==
    LET arguments == pair.inner
        unit_str  == arguments[1].str
        upper     == to_uppercase(unit_str)
    IN  IF Len(arguments) < 1
        THEN ErrR(st, SemanticError(<<"No unit was specified for MO command.">>))
        ELSE IF upper # <<"M", "M">> /\ upper # <<"I", "N">>
        THEN ErrR(st, SemanticError(<<"Unrecognized unit: ">> \o unit_str))
        ELSE IF Len(arguments) > 1
        THEN ErrR(st, SemanticError(<<"Unexpected additional arguments for MO command.">>))
        ELSE OkR(Push(st, [cmd |-> "MO",
                           unit |-> IF upper = <<"M", "M">> THEN "Millimeters" ELSE "Inches"],
                      path))

\* arm_fs without the check for a fifth argument
arm_fs_no_extra_check(pair, path, st) ==
    LET arguments == pair.inner
        arg(k)    == parse_u8(arguments[k].str)
    IN  IF Len(arguments) < 4 \/ \E k \in 1..4 : arg(k) = <<>>
        THEN ErrR(st, SemanticError(<<"Missing digits in FS command.">>))
        ELSE OkR(Push(st, [cmd |-> "FS",
                           x_integer_digits |-> arg(1)[1],
                           x_decimal_digits |-> arg(2)[1],
                           y_integer_digits |-> arg(3)[1],
                           y_decimal_digits |-> arg(4)[1]],
                      path))

arm_fs(pair, path, st) ==
    LET arguments == pair.inner
        arg(k)    == parse_u8(arguments[k].str)
    IN  IF Len(arguments) < 1
        THEN ErrR(st, SemanticError(<<"Missing X integer digits in FS command.">>))
        ELSE IF arg(1) = <<>>
        THEN ErrR(st, SemanticError(<<"X integer digits could not be parsed as a number.">>))
        ELSE IF Len(arguments) < 2
        THEN ErrR(st, SemanticError(<<"Missing X decimal digits in FS command.">>))
        ELSE IF arg(2) = <<>>
        THEN ErrR(st, SemanticError(<<"X decimal digits could not be parsed as a number.">>))
        ELSE IF Len(arguments) < 3
        THEN ErrR(st, SemanticError(<<"Missing Y integer digits in FS command.">>))
        ELSE IF arg(3) = <<>>
        THEN ErrR(st, SemanticError(<<"Y integer digits could not be parsed as a number.">>))
        ELSE IF Len(arguments) < 4
        THEN ErrR(st, SemanticError(<<"Missing Y decimal digits in FS command.">>))
        ELSE IF arg(4) = <<>>
        THEN ErrR(st, SemanticError(<<"Y decimal digits could not be parsed as a number.">>))
        ELSE IF Len(arguments) > 4
        THEN ErrR(st, SemanticError(<<"Unexpected additional arguments for FS command.">>))
        ELSE OkR(Push(st, [cmd |-> "FS",
                           x_integer_digits |-> arg(1)[1],
                           x_decimal_digits |-> arg(2)[1],
                           y_integer_digits |-> arg(3)[1],
                           y_decimal_digits |-> arg(4)[1]],
                      path))

\* arm_dnn with the code looked up among the AD commands pushed so far
arm_dnn_defined_only(pair, path, st) ==
    LET arguments == pair.inner
        ap_str    == arguments[1].str
        code      == parse_u32_str(trim_start_matches(ap_str, "D"))
    IN  IF Len(arguments) < 1
        THEN ErrR(st, SemanticError(<<"Missing aperture code in Dnn command.">>))
        ELSE IF code = <<>>
        THEN ErrR(st, SemanticError(<<"Aperture code '">> \o ap_str
                                    \o <<"' could not be parsed as an integer.">>))
        ELSE IF ~\E k \in 1..Len(st.commands) :
                    st.commands[k].cmd = "AD" /\ st.commands[k].code = code[1]
        THEN ErrR(st, SemanticError(<<"Aperture '">> \o ap_str \o <<"' is not defined.">>))
        ELSE OkR(Push(st, [cmd |-> "Dnn", code |-> code[1]], path))

arm_dnn(pair, path, st) ==
    LET arguments == pair.inner
        ap_str    == arguments[1].str
        code      == parse_u32_str(trim_start_matches(ap_str, "D"))
    IN  IF Len(arguments) < 1
        THEN ErrR(st, SemanticError(<<"Missing aperture code in Dnn command.">>))
        ELSE IF code = <<>>
        THEN ErrR(st, SemanticError(<<"Aperture code '">> \o ap_str
                                    \o <<"' could not be parsed as an integer.">>))
        ELSE OkR(Push(st, [cmd |-> "Dnn", code |-> code[1]], path))

\* the arms that push a command without reading the node
arm_marker(name, path, st) == OkR(Push(st, [cmd |-> name], path))

(***************************************************************************)
(* D01, D02, D03: the coordinate loops.  An operation under construction   *)
(* is [ok, op, err]; the loop stops at the first conversion failure.       *)
(***************************************************************************)
OpOk(op) == [ok |-> TRUE, op |-> op, err |-> NoError]

OpErr(op, e) == [ok |-> FALSE, op |-> op, err |-> e]

CoordError(axis, coord_str) ==
    SemanticError(<<axis>> \o <<" coordinate '">> \o coord_str
                  \o <<"' could not be parsed as a number.">>)

\* d01_arg with an offset pair that lacks J accepted, j left as None
d01_arg_missing_j_accepted(new_pair, op) ==
    LET pair_str   == new_pair.rule
        coord_args == new_pair.inner
        coord_str  == coord_args[1].str
        v          == parse_i32(coord_str)
    IN  IF Len(coord_args) < 1 THEN OpOk(op)
        ELSE IF v = <<>> THEN OpErr(op, CoordError("Y", coord_str))
        ELSE IF pair_str = "x_coord" THEN OpOk([op EXCEPT !.x = Some(v[1])])
        ELSE IF pair_str = "y_coord" THEN OpOk([op EXCEPT !.y = Some(v[1])])
        ELSE IF pair_str = "ij_coords"
        THEN IF Len(coord_args) < 2 THEN OpOk([op EXCEPT !.i = Some(v[1])])
             ELSE IF parse_i32(coord_args[2].str) = <<>>
             THEN OpErr(op, CoordError("Y", coord_str))
             ELSE OpOk([op EXCEPT !.i = Some(v[1]),
                                  !.j = Some(parse_i32(coord_args[2].str)[1])])
        ELSE OpOk(op)

\* one round of the `while let Some(new_pair)` loop of the d01 arm
d01_arg(new_pair, op) ==
    LET pair_str   == new_pair.rule
        coord_args == new_pair.inner
        coord_str  == coord_args[1].str
        v          == parse_i32(coord_str)
    IN  IF Len(coord_args) < 1 THEN OpOk(op)
        ELSE IF pair_str = "x_coord"
        THEN IF v = <<>> THEN OpErr(op, CoordError("X", coord_str))
             ELSE OpOk([op EXCEPT !.x = Some(v[1])])
        ELSE IF pair_str = "y_coord"
        THEN IF v = <<>> THEN OpErr(op, CoordError("Y", coord_str))
             ELSE OpOk([op EXCEPT !.y = Some(v[1])])
        ELSE IF pair_str = "ij_coords"
        THEN IF v = <<>> THEN OpErr(op, CoordError("Y", coord_str))
             ELSE IF Len(coord_args) < 2
             THEN OpErr([op EXCEPT !.i = Some(v[1])],
                        SemanticError(<<"Missing J parameter.">>))
             ELSE IF parse_i32(coord_args[2].str) = <<>>
             THEN OpErr([op EXCEPT !.i = Some(v[1])], CoordError("Y", coord_str))
             ELSE OpOk([op EXCEPT !.i = Some(v[1]),
                                  !.j = Some(parse_i32(coord_args[2].str)[1])])
        ELSE OpOk(op)

\* one round of the `while let Some(new_pair)` loop of the d02 and d03 arms
d02_arg(new_pair, op) ==
    LET pair_str   == new_pair.rule
        coord_args == new_pair.inner
        coord_str  == coord_args[1].str
        v          == parse_i32(coord_str)
    IN  IF Len(coord_args) < 1 THEN OpOk(op)
        ELSE IF pair_str = "x_coord"
        THEN IF v = <<>> THEN OpErr(op, CoordError("X", coord_str))
             ELSE OpOk([op EXCEPT !.x = Some(v[1])])
        ELSE IF pair_str = "y_coord"
        THEN IF v = <<>> THEN OpErr(op, CoordError("Y", coord_str))
             ELSE OpOk([op EXCEPT !.y = Some(v[1])])
        ELSE OpOk(op)

RECURSIVE d01_loop(_, _, _)
d01_loop(arguments, k, op) ==
    IF k > Len(arguments) THEN OpOk(op)
    ELSE LET r == d01_arg(arguments[k], op)
         IN  IF r.ok THEN d01_loop(arguments, k + 1, r.op) ELSE r

RECURSIVE d02_loop(_, _, _)
d02_loop(arguments, k, op) ==
    IF k > Len(arguments) THEN OpOk(op)
    ELSE LET r == d02_arg(arguments[k], op)
         IN  IF r.ok THEN d02_loop(arguments, k + 1, r.op) ELSE r

arm_d01(pair, path, st) ==
    LET r == d01_loop(pair.inner, 1, [cmd |-> "D01", x |-> None, y |-> None,
                                      i |-> None, j |-> None])
    IN  IF r.ok THEN OkR(Push(st, r.op, path)) ELSE ErrR(st, r.err)

\* arm_d02 with the axes of the operation starting as Some(0)
arm_d02_zero_default(pair, path, st) ==
    LET r == d02_loop(pair.inner, 1, [cmd |-> "D02", x |-> Some(0), y |-> Some(0)])
    IN  IF r.ok THEN OkR(Push(st, r.op, path)) ELSE ErrR(st, r.err)

\* arm_d02 with an omitted axis copied from the last command of the vector
arm_d02_copy_previous(pair, path, st) ==
    LET prev == IF st.commands # <<>> /\ st.commands[Len(st.commands)].cmd \in {"D01", "D02", "D03"}
                THEN st.commands[Len(st.commands)]
                ELSE [cmd |-> "D02", x |-> None, y |-> None]
        r    == d02_loop(pair.inner, 1, [cmd |-> "D02", x |-> prev.x, y |-> prev.y])
    IN  IF r.ok THEN OkR(Push(st, r.op, path)) ELSE ErrR(st, r.err)

arm_d02(pair, path, st) ==
    LET r == d02_loop(pair.inner, 1, [cmd |-> "D02", x |-> None, y |-> None])
    IN  IF r.ok THEN OkR(Push(st, r.op, path)) ELSE ErrR(st, r.err)

arm_d03(pair, path, st) ==
    LET r == d02_loop(pair.inner, 1, [cmd |-> "D03", x |-> None, y |-> None])
    IN  IF r.ok THEN OkR(Push(st, r.op, path)) ELSE ErrR(st, r.err)

(***************************************************************************)
(* LP, LM, LR, LS, TF.                                                     *)
(***************************************************************************)
arm_lp(pair, path, st) ==
    LET arguments    == pair.inner
        polarity_str == arguments[1].str
        upper        == to_uppercase(polarity_str)
    IN  IF Len(arguments) < 1
        THEN ErrR(st, SemanticError(<<"Missing polarity in LP command.">>))
        ELSE IF upper = <<"D">> THEN OkR(Push(st, [cmd |-> "LP", polarity |-> "Dark"], path))
        ELSE IF upper = <<"C">> THEN OkR(Push(st, [cmd |-> "LP", polarity |-> "Clear"], path))
        ELSE ErrR(st, SemanticError(<<"Unrecognized polarity: ">> \o polarity_str))

\* arm_lm with the token compared as written, without to_uppercase
arm_lm_case_sensitive(pair, path, st) ==
    LET arguments     == pair.inner
        mirroring_str == arguments[1].str
        upper         == mirroring_str
    IN  IF Len(arguments) < 1
        THEN ErrR(st, SemanticError(<<"Missing mirroring parameter in LM command.">>))
        ELSE IF upper = <<"N">> THEN OkR(Push(st, [cmd |-> "LM", mirroring |-> "None"], path))
        ELSE IF upper = <<"X">> THEN OkR(Push(st, [cmd |-> "LM", mirroring |-> "X"], path))
        ELSE IF upper = <<"Y">> THEN OkR(Push(st, [cmd |-> "LM", mirroring |-> "Y"], path))
        ELSE IF upper = <<"X", "Y">> THEN OkR(Push(st, [cmd |-> "LM", mirroring |-> "XY"], path))
        ELSE ErrR(st, SemanticError(<<"Unrecognized mirroring parameter: ">> \o mirroring_str))

arm_lm(pair, path, st) ==
    LET arguments     == pair.inner
        mirroring_str == arguments[1].str
        upper         == to_uppercase(mirroring_str)
    IN  IF Len(arguments) < 1
        THEN ErrR(st, SemanticError(<<"Missing mirroring parameter in LM command.">>))
        ELSE IF upper = <<"N">> THEN OkR(Push(st, [cmd |-> "LM", mirroring |-> "None"], path))
        ELSE IF upper = <<"X">> THEN OkR(Push(st, [cmd |-> "LM", mirroring |-> "X"], path))
        ELSE IF upper = <<"Y">> THEN OkR(Push(st, [cmd |-> "LM", mirroring |-> "Y"], path))
        ELSE IF upper = <<"X", "Y">> THEN OkR(Push(st, [cmd |-> "LM", mirroring |-> "XY"], path))
        ELSE ErrR(st, SemanticError(<<"Unrecognized mirroring parameter: ">> \o mirroring_str))

arm_lr(pair, path, st) ==
    LET arguments    == pair.inner
        rotation_str == arguments[1].str
        v            == parse_f64_str(rotation_str)
    IN  IF Len(arguments) < 1
        THEN ErrR(st, SemanticError(<<"Missing rotation angle in LR command.">>))
        ELSE IF v = <<>>
        THEN ErrR(st, SemanticError(<<"Rotation angle '">> \o rotation_str
                                    \o <<"' could not be parsed as a number.">>))
        ELSE OkR(Push(st, [cmd |-> "LR", value |-> v[1]], path))

arm_ls(pair, path, st) ==
    LET arguments == pair.inner
        sf_str    == arguments[1].str
        v         == parse_f64_str(sf_str)
    IN  IF Len(arguments) < 1
        THEN ErrR(st, SemanticError(<<"Missing scaling factor in LS command.">>))
        ELSE IF v = <<>>
        THEN ErrR(st, SemanticError(<<"Scaling factor '">> \o sf_str
                                    \o <<"' could not be parsed as a number.">>))
        ELSE OkR(Push(st, [cmd |-> "LS", value |-> v[1]], path))

arm_tf(pair, path, st) ==
    LET arguments == pair.inner
    IN  IF Len(arguments) < 1
        THEN ErrR(st, SemanticError(<<"Missing attribute name in TF command.">>))
        ELSE OkR(Push(st, [cmd |-> "TF", name |-> arguments[1].str,
                           values |-> [k \in 1..(Len(arguments) - 1) |-> arguments[k + 1].str]],
                      path))

(***************************************************************************)
(* AD: aperture definition.                                                *)
(***************************************************************************)
\* Iterator::next at position k of a node list: Some(node) or None
Next_(args, k) == IF k <= Len(args) THEN Some(args[k]) ELSE None

\* `if let Some(p) = arguments.next() { v = p.parse().map_err(..)? }` for
\* an f64 that starts as 0.0: [ok, v]
F64Or(args, k) ==
    IF k > Len(args) THEN [ok |-> TRUE, v |-> F64Zero]
    ELSE IF parse_f64_str(args[k].str) = <<>> THEN [ok |-> FALSE, v |-> F64Zero]
    ELSE [ok |-> TRUE, v |-> parse_f64_str(args[k].str)[1]]

\* the same for a u32 that starts as 0: [ok, v]
U32Or(args, k) ==
    IF k > Len(args) THEN [ok |-> TRUE, v |-> 0]
    ELSE IF parse_u32_str(args[k].str) = <<>> THEN [ok |-> FALSE, v |-> 0]
    ELSE [ok |-> TRUE, v |-> parse_u32_str(args[k].str)[1]]

\* the same for an Option<f64> that starts as None: [ok, v]
F64Opt(args, k) ==
    IF k > Len(args) THEN [ok |-> TRUE, v |-> None]
    ELSE IF parse_f64_str(args[k].str) = <<>> THEN [ok |-> FALSE, v |-> None]
    ELSE [ok |-> TRUE, v |-> Some(parse_f64_str(args[k].str)[1])]

\* [ok, template, err] for the template node of an AD command
ad_template(template_pair) ==
    LET pair_str == template_pair.rule
        a        == template_pair.inner
        f1       == F64Or(a, 1)
        f2       == F64Or(a, 2)
        u2       == U32Or(a, 2)
        o2       == F64Opt(a, 2)
        o3       == F64Opt(a, 3)
        o4       == F64Opt(a, 4)
        params   == [k \in 1..(Len(a) - 1) |-> parse_f64_str(a[k + 1].str)]
        Bad(msg) == [ok |-> FALSE, template |-> [kind |-> "None"], err |-> SemanticError(msg)]
        Good(t)  == [ok |-> TRUE, template |-> t, err |-> NoError]
    IN  IF pair_str = "template_circle"
        THEN IF ~f1.ok THEN Bad(<<"Circle diameter could not be parsed as a number.">>)
             ELSE IF ~o2.ok THEN Bad(<<"Circle hole diameter could not be parsed as a number.">>)
             ELSE Good([kind |-> "Circle", diameter |-> f1.v, hole |-> o2.v])
        ELSE IF pair_str \in {"template_rectangle", "template_obround"}
        THEN IF ~f1.ok THEN Bad(<<"Rectangle x could not be parsed.">>)
             ELSE IF ~f2.ok \/ ~o3.ok THEN Bad(<<"Rectangle y could not be parsed.">>)
             ELSE Good([kind |-> IF pair_str = "template_rectangle" THEN "Rectangle" ELSE "Obround",
                        x |-> f1.v, y |-> f2.v, hole |-> o3.v])
        ELSE IF pair_str = "template_polygon"
        THEN IF ~f1.ok THEN Bad(<<"Rectangle x could not be parsed.">>)
             ELSE IF ~u2.ok \/ ~o3.ok \/ ~o4.ok THEN Bad(<<"Rectangle y could not be parsed.">>)
             ELSE Good([kind |-> "Polygon", outer_diameter |-> f1.v, vertices |-> u2.v,
                        rotation |-> o3.v, hole |-> o4.v])
        ELSE IF pair_str = "template_name"
        THEN IF \E k \in 1..Len(params) : params[k] = <<>>
             THEN Bad(<<"Rectangle y could not be parsed.">>)
             ELSE Good([kind |-> "Macro",
                        name |-> IF Len(a) >= 1 THEN a[1].str ELSE <<>>,
                        parameters |-> [k \in 1..Len(params) |-> params[k][1]]])
        ELSE Bad(<<"Unsupported aperture template: ", pair_str>>)

arm_ad(pair, path, st) ==
    LET arguments == pair.inner
        ap_str    == arguments[1].str
        code      == parse_u32_str(trim_start_matches(ap_str, "D"))
        t         == ad_template(arguments[2])
    IN  IF Len(arguments) < 1
        THEN ErrR(st, SemanticError(<<"Missing aperture code in AD command.">>))
        ELSE IF code = <<>>
        THEN ErrR(st, SemanticError(<<"Aperture code '">> \o ap_str
                                    \o <<"' could not be parsed as an integer.">>))
        ELSE IF Len(arguments) < 2
        THEN ErrR(st, SemanticError(<<"Missing aperture template in AD command.">>))
        ELSE IF ~t.ok THEN ErrR(st, t.err)
        ELSE OkR(Push(st, [cmd |-> "AD", code |-> code[1], template |-> t.template], path))

(***************************************************************************)
(* AM: aperture macro and its primitives.                                  *)
(***************************************************************************)
\* fn parse_f64_value(pair) -> f64
parse_f64_value(pair) ==
    IF parse_f64_str(pair.str) = <<>> THEN F64Zero ELSE parse_f64_str(pair.str)[1]

\* fn parse_f64(opt) -> f64
parse_f64(opt) == IF opt = None THEN F64Zero ELSE parse_f64_value(opt[1])

\* fn parse_bool(opt) -> bool
parse_bool(opt) ==
    IF opt = None THEN FALSE
    ELSE (IF parse_i32(opt[1].str) = <<>> THEN 0 ELSE parse_i32(opt[1].str)[1]) # 0

\* fn parse_u32(opt) -> u32
parse_u32(opt) ==
    IF opt = None THEN 0
    ELSE IF parse_u32_str(opt[1].str) = <<>> THEN 0 ELSE parse_u32_str(opt[1].str)[1]

\* the "remaining points" loop of primitive_outline: pos is the position of
\* the next token of `inner`; the result is [points, pos] when the loop ends
RECURSIVE outline_loop(_, _, _)
outline_loop(inner, pos, points) ==
    LET x_opt == Next_(inner, pos)
        y_opt == Next_(inner, pos + 1)
        after == IF pos + 2 <= Len(inner) + 1 THEN pos + 2 ELSE Len(inner) + 1
        count == Len(inner) + 1 - after
    IN  IF x_opt = None \/ y_opt = None THEN [points |-> points, pos |-> after]
        ELSE IF count <= 1 THEN [points |-> points, pos |-> after]
        ELSE outline_loop(inner, after,
                          Append(points, <<parse_f64_value(x_opt[1]), parse_f64_value(y_opt[1])>>))

primitive_outline(inner) ==
    LET exposure == parse_bool(Next_(inner, 1))
        x        == parse_f64(Next_(inner, 2))
        y        == parse_f64(Next_(inner, 3))
        l        == outline_loop(inner, 4, << <<x, y>> >>)
        rotation == parse_f64(Next_(inner, l.pos))
    IN  [prim |-> "Outline", exposure |-> exposure, points |-> l.points, rotation |-> rotation]

\* the primitives of fixed arity; <<>> when the node adds no primitive
am_primitive(macro_body_pair) ==
    LET macro_str == macro_body_pair.rule
        inner     == macro_body_pair.inner
        f(k)      == parse_f64(Next_(inner, k))
    IN  IF macro_str = "primitive_comment"
        THEN IF Len(inner) >= 1 THEN <<[prim |-> "Comment", text |-> inner[1].str]>> ELSE <<>>
        ELSE IF macro_str = "primitive_circle"
        THEN <<[prim |-> "Circle", exposure |-> parse_bool(Next_(inner, 1)),
                diameter |-> f(2), center_x |-> f(3), center_y |-> f(4),
                rotation |-> IF Len(inner) >= 5 THEN Some(parse_f64_value(inner[5])) ELSE None]>>
        ELSE IF macro_str = "primitive_vector_line"
        THEN <<[prim |-> "VectorLine", exposure |-> parse_bool(Next_(inner, 1)),
                width |-> f(2), start_x |-> f(3), start_y |-> f(4),
                end_x |-> f(5), end_y |-> f(6), rotation |-> f(7)]>>
        ELSE IF macro_str = "primitive_center_line"
        THEN <<[prim |-> "CenterLine", exposure |-> parse_bool(Next_(inner, 1)),
                width |-> f(2), height |-> f(3), center_x |-> f(4), center_y |-> f(5),
                rotation |-> f(6)]>>
        ELSE IF macro_str = "primitive_outline"
        THEN <<primitive_outline(inner)>>
        ELSE IF macro_str = "primitive_polygon"
        THEN <<[prim |-> "Polygon", exposure |-> parse_bool(Next_(inner, 1)),
                vertices |-> parse_u32(Next_(inner, 2)),
                center_x |-> f(3), center_y |-> f(4), diameter |-> f(5), rotation |-> f(6)]>>
        ELSE IF macro_str = "primitive_thermal"
        THEN <<[prim |-> "Thermal", center_x |-> f(1), center_y |-> f(2),
                outer_diameter |-> f(3), inner_diameter |-> f(4), gap |-> f(5),
                rotation |-> f(6)]>>
        ELSE IF macro_str = "variable_definition"
        THEN <<[prim |-> "VariableDefinition", var_num |-> parse_u32(Next_(inner, 1)),
                expression |-> IF Len(inner) >= 2 THEN inner[2].str ELSE <<>>]>>
        ELSE <<>>

\* the `while let Some(macro_body_pair)` loop of the am arm
RECURSIVE am_loop(_, _, _)

\* am_loop left at the first node that adds no primitive
am_loop_stop_at_unrecognized(arguments, k, primitives) ==
    IF k > Len(arguments) \/ am_primitive(arguments[k]) = <<>> THEN primitives
    ELSE am_loop(arguments, k + 1, primitives \o am_primitive(arguments[k]))

am_loop(arguments, k, primitives) ==
    IF k > Len(arguments) THEN primitives
    ELSE am_loop(arguments, k + 1, primitives \o am_primitive(arguments[k]))

arm_am(pair, path, st) ==
    LET arguments == pair.inner
        name      == IF Len(arguments) >= 1 THEN arguments[1].str ELSE <<>>
    IN  OkR(Push(st, [cmd |-> "AM", name |-> name,
                      primitives |-> am_loop(arguments, 2, <<>>)], path))

(***************************************************************************)
(* parse_pair and the region arm.                                          *)
(***************************************************************************)
RECURSIVE parse_pair(_, _, _)
RECURSIVE contour_loop(_, _, _, _)
RECURSIVE region_loop(_, _, _, _)

\* `for contour in contour_pair.into_inner()`: the nodes of one contour
\* body, from position j, each dispatched by parse_pair
contour_loop(ops, j, path, st) ==
    IF j > Len(ops) THEN OkR(st)
    ELSE LET r == parse_pair(ops[j], path \o <<j>>, st)
         IN  IF r.ok THEN contour_loop(ops, j + 1, path, Vec(r.commands, r.origins))
             ELSE r

\* region_loop with the loop left after the first contour body
region_loop_first_only(arguments, k, path, st) ==
    IF arguments[k].rule # "contour" THEN OkR(st)
    ELSE contour_loop(arguments[k].inner, 1, path \o <<k>>, st)

\* `while contour_pair.as_rule() == Rule::contour`, contour_pair being
\* arguments[k]
region_loop(arguments, k, path, st) ==
    IF arguments[k].rule # "contour" THEN OkR(st)
    ELSE LET r == contour_loop(arguments[k].inner, 1, path \o <<k>>, st)
         IN  IF ~r.ok THEN r
             ELSE IF k + 1 > Len(arguments) THEN r
             ELSE region_loop(arguments, k + 1, path, Vec(r.commands, r.origins))

\* arm_region_statement without the push of G37 after the contour bodies
arm_region_statement_unclosed(pair, path, st) ==
    LET arguments == pair.inner
        st1       == Push(st, [cmd |-> "G36"], path)
        r         == region_loop(arguments, 2, path, st1)
    IN  IF Len(arguments) < 1
        THEN ErrR(st1, SemanticError(<<"Missing command.">>))
        ELSE IF Len(arguments) < 2
        THEN ErrR(st1, SemanticError(<<"Expected contour">>))
        ELSE r

\* arm_region_statement with both markers pushed before the contour bodies
arm_region_statement_markers_first(pair, path, st) ==
    LET arguments == pair.inner
        st1       == Push(Push(st, [cmd |-> "G36"], path), [cmd |-> "G37"],
                          path \o <<Len(arguments) + 1>>)
        r         == region_loop(arguments, 2, path, st1)
    IN  IF Len(arguments) < 1
        THEN ErrR(st1, SemanticError(<<"Missing command.">>))
        ELSE IF Len(arguments) < 2
        THEN ErrR(st1, SemanticError(<<"Expected contour">>))
        ELSE r

\* G36 is pushed on entering the region node, G37 on leaving it: the
\* origin of G37 is the position after the last child of the node
arm_region_statement(pair, path, st) ==
    LET arguments == pair.inner
        st1       == Push(st, [cmd |-> "G36"], path)
        r         == region_loop(arguments, 2, path, st1)
    IN  IF Len(arguments) < 1
        THEN ErrR(st1, SemanticError(<<"Missing command.">>))
        ELSE IF Len(arguments) < 2
        THEN ErrR(st1, SemanticError(<<"Expected contour">>))
        ELSE IF ~r.ok THEN r
        ELSE OkR(Push(Vec(r.commands, r.origins), [cmd |-> "G37"],
                      path \o <<Len(arguments) + 1>>))

\* pub fn parse_pair(pair, commands) -> Result<(), GerberError>
parse_pair(pair, path, st) ==
    LET rule == pair.rule
    IN  CASE rule = "g04" -> arm_g04(pair, path, st)
          [] rule = "mo"  -> arm_mo(pair, path, st)
          [] rule = "fs"  -> arm_fs(pair, path, st)
          [] rule = "ad"  -> arm_ad(pair, path, st)
          [] rule = "am"  -> arm_am(pair, path, st)
          [] rule = "dnn" -> arm_dnn(pair, path, st)
          [] rule = "g01" -> arm_marker("G01", path, st)
          [] rule = "g02" -> arm_marker("G02", path, st)
          [] rule = "g03" -> arm_marker("G03", path, st)
          [] rule = "g75" -> arm_marker("G75", path, st)
          [] rule = "d01" -> arm_d01(pair, path, st)
          [] rule = "d02" -> arm_d02(pair, path, st)
          [] rule = "d03" -> arm_d03(pair, path, st)
          [] rule = "lp"  -> arm_lp(pair, path, st)
          [] rule = "lm"  -> arm_lm(pair, path, st)
          [] rule = "lr"  -> arm_lr(pair, path, st)
          [] rule = "ls"  -> arm_ls(pair, path, st)
          [] rule = "region_statement" -> arm_region_statement(pair, path, st)
          [] rule = "ab_statement" -> OkR(st)
          [] rule = "sr_statement" -> OkR(st)
          [] rule = "tf"  -> arm_tf(pair, path, st)
          [] rule = "ta"  -> OkR(st)
          [] rule = "to"  -> OkR(st)
          [] rule = "td"  -> OkR(st)
          [] rule = "m02" -> arm_marker("M02", path, st)
          [] OTHER -> OkR(st)

(***************************************************************************)
(* Syntax trees given to the parser.                                       *)
(***************************************************************************)
\* a leaf node with span text str
Tok(str) == [rule |-> "token", str |-> str, inner |-> <<>>]

\* an inner node
Node(rule, inner) == [rule |-> rule, str |-> <<>>, inner |-> inner]

\* the decimal text of a natural number, one character per chunk
RECURSIVE Digits(_)
Digits(n) == IF n < 10 THEN <<DigitChars[n + 1]>>
             ELSE Digits(n \div 10) \o <<DigitChars[(n % 10) + 1]>>

\* the decimal text of an integer
Num(n) == IF n < 0 THEN <<"-">> \o Digits(-n) ELSE Digits(n)

\* 2147483648, one more than the largest i32
TooBig == <<"2", "1", "4", "7", "4", "8", "3", "6", "4", "8">>

Opt(S) == {<<>>} \cup {<<x>> : x \in S}

XCoord(t) == Node("x_coord", <<Tok(t)>>)
YCoord(t) == Node("y_coord", <<Tok(t)>>)
IJCoords(ts) == Node("ij_coords", [k \in 1..Len(ts) |-> Tok(ts[k])])

\* the coordinate nodes of an operation: x, y and the offset pair ij are
\* each a sequence of at most one numeral text (ij: of numeral texts)
OpArgs(x, y, ij) ==
    (IF x = <<>> THEN <<>> ELSE <<XCoord(x[1])>>)
    \o (IF y = <<>> THEN <<>> ELSE <<YCoord(y[1])>>)
    \o (IF ij = <<>> THEN <<>> ELSE <<IJCoords(ij)>>)

Plus7 == <<"+", "7">>

D01Nodes == { Node("d01", OpArgs(x, y, <<>>)) : x \in Opt({Num(-1)}), y \in Opt({Plus7}) }
            \cup { Node("d01", OpArgs(x, <<>>, ij)) :
                   x \in Opt({Num(-1)}), ij \in {<<Num(2)>>, <<Num(2), Num(-3)>>} }
            \cup { Node("d01", OpArgs(<<Num(5)>>, <<Num(0)>>, <<Num(2), Num(-3)>>)),
                   Node("d01", OpArgs(<<TooBig>>, <<>>, <<Num(2)>>)) }

D02Nodes == { Node("d02", OpArgs(x, y, <<>>)) : x \in Opt({Num(5)}), y \in Opt({Num(0)}) }
            \cup { Node("d02", OpArgs(<<Num(5)>>, << <<"1", "x">> >>, <<>>)) }

D03Nodes == { Node("d03", OpArgs(<<Num(5)>>, <<>>, <<>>)),
              Node("d03", OpArgs(<<Num(3)>>, <<Num(0)>>, <<Num(2), Num(-3)>>)) }

UnitTexts == {<<"M", "M">>, <<"m", "m">>, <<"i", "N">>, <<"C", "M">>}

MONodes == { Node("mo", <<Tok(u)>>) : u \in UnitTexts }
               \cup { Node("mo", <<>>), Node("mo", <<Tok(<<"M", "M">>), Tok(<<"I", "N">>)>>) }

\* FS nodes with 3, 4 and 5 digit tokens
FSNodes == { Node("fs", [k \in 1..n |-> Tok(Num(k + 1))]) : n \in 3..5 }
               \cup { Node("fs", <<Tok(Num(2)), Tok(Num(256)), Tok(Num(2)), Tok(Num(6))>>) }

\* outline primitives: exposure, n points (point k is (k, -k/10)), rotation
OutlineTokens(n, rot) ==
    <<Tok(Num(1))>>
    \o [k \in 1..(2 * n) |-> IF k % 2 = 1 THEN Tok(Num((k + 1) \div 2))
                             ELSE Tok(<<"-", "0", ".">> \o Num(k \div 2))]
    \o <<Tok(rot)>>

\* largest number of points of an explored outline primitive
MaxPoints == 3

AMNodes == { Node("am", <<Tok(<<"OUT">>), Node("primitive_outline", OutlineTokens(n, Num(45)))>>) :
             n \in 1..MaxPoints }
           \cup { Node("am", <<Tok(<<"THERMAL80">>),
                         Node("primitive_comment", <<Tok(<<"a thermal">>)>>),
                         Node("primitive_thermal",
                              <<Tok(Num(0)), Tok(Num(0)), Tok(<<"0", ".", "8", "0", "0">>),
                                Tok(<<"0", ".", "5", "5">>), Tok(<<"0", ".", "1", "2", "5">>),
                                Tok(Num(45))>>)>>) }

D10 == <<"D", "1", "0">>

ADNodes == { Node("ad", <<Tok(D10), Node("template_circle", <<Tok(<<"0", ".", "0", "1", "0">>)>>)>>),
             Node("ad", <<Tok(D10), Node("template_rectangle", <<Tok(Num(1)), Tok(<<"0", ".", "4">>)>>)>>),
             Node("ad", <<Tok(D10)>>) }

Contour(ops) == Node("contour", ops)

Move00 == Node("d02", <<XCoord(Num(0)), YCoord(Num(0))>>)
DrawX5 == Node("d01", <<XCoord(Num(5))>>)
DrawY7 == Node("d01", <<YCoord(Num(7))>>)
DrawNoJ == Node("d01", <<XCoord(Num(5)), IJCoords(<<Num(2)>>)>>)

\* region statements: the G36 node, contour bodies, the G37 node
Region(contours) == Node("region_statement", <<Node("g36", <<>>)>> \o contours \o <<Node("g37", <<>>)>>)

\* largest number of contour bodies of an explored region
MaxContours == 2

\* the k-th contour body of the explored regions
Body(k) == IF k % 2 = 1 THEN <<Move00, DrawX5>>
           ELSE <<Move00, Node("g01", <<>>), DrawY7, DrawX5>>

\* a contour body whose second operation cannot be decoded
BadBody == <<Move00, DrawNoJ, DrawX5>>

RegionNodes == { Region([k \in 1..n |-> Contour(Body(k))]) : n \in 0..MaxContours }
               \cup { Region(<<Contour(Body(1)), Contour(BadBody)>>) }

RECURSIVE SeqsUpTo(_, _)
SeqsUpTo(S, n) ==
    IF n = 0 THEN {<<>>}
    ELSE LET shorter == SeqsUpTo(S, n - 1)
         IN  shorter \cup { Append(s, x) : s \in shorter, x \in S }

\* statements: the nodes of a plot file in general
Statements == { Node("g04", <<Tok(<<"a comment">>)>>), Node("g04", <<>>),
                Node("mo", <<Tok(<<"M", "M">>)>>),
                Node("dnn", <<Tok(D10)>>),
                Move00, DrawX5,
                Node("d03", <<YCoord(Num(7))>>),
                Node("lp", <<Tok(<<"D">>)>>),
                Node("ab_statement", <<Node("d03", <<XCoord(Num(5))>>)>>),
                Node("tf", <<Tok(<<".Part">>), Tok(<<"Other">>), Tok(<<"example">>)>>),
                Node("ta", <<Tok(<<".AperFunction">>), Tok(<<"ViaPad">>)>>),
                Node("m02", <<>>), Node("EOI", <<>>),
                Node("unknown_statement", <<Node("g01", <<>>)>>) }
              \cup RegionNodes

\* plot operations
Operations == D01Nodes \cup D02Nodes \cup D03Nodes \cup { Node("g01", <<>>) }

\* header and graphics state commands
Headers == MONodes \cup FSNodes \cup ADNodes \cup AMNodes
           \cup { Node("g75", <<>>),
                  Node("lp", <<Tok(<<"c">>)>>), Node("lp", <<Tok(<<"Q">>)>>),
                  Node("lm", <<Tok(<<"X", "Y">>)>>),
                  Node("lr", <<Tok(Num(90))>>), Node("ls", <<Tok(<<"0", ".", "5">>)>>) }

D11 == <<"D", "1", "1">>

\* aperture, object and delete attributes
AttrNodes == { Node("ta", <<Tok(<<".AperFunction">>), Tok(<<"ViaPad">>)>>),
               Node("to", <<Tok(<<".N">>), Tok(<<"GND">>), Tok(<<"VCC">>)>>),
               Node("td", <<Tok(<<".N">>)>>),
               Node("td", <<>>) }

\* macros whose primitives lack a parameter or carry text that is no
\* numeral, and a macro with a primitive of a kind the am arm does not name
OddAMNodes == { Node("am", <<Tok(<<"SHORT">>), Node("primitive_circle", <<Tok(Num(1))>>)>>),
                Node("am", <<Tok(<<"TEXT">>),
                             Node("primitive_polygon",
                                  <<Tok(Num(1)), Tok(<<"s", "i", "x">>), Tok(Num(0)), Tok(Num(0)),
                                    Tok(Num(2)), Tok(Num(0))>>)>>),
                Node("am", <<Tok(<<"MIX">>),
                             Node("primitive_circle",
                                  <<Tok(Num(1)), Tok(<<"1", ".", "5">>), Tok(Num(0)), Tok(Num(0))>>),
                             Node("primitive_moire", <<Tok(Num(0)), Tok(Num(0))>>),
                             Node("variable_definition", <<Tok(Num(1)), Tok(<<"$2x3">>)>>)>>) }

\* aperture definitions whose standard template lacks a mandatory parameter
ShortADNodes == { Node("ad", <<Tok(D10), Node("template_circle", <<>>)>>),
                  Node("ad", <<Tok(D10), Node("template_obround", <<Tok(Num(1))>>)>>),
                  Node("ad", <<Tok(D10), Node("template_polygon", <<Tok(Num(8))>>)>>) }

\* a region whose contour body holds a node of a kind parse_pair has no arm for
OddRegion == Region(<<Contour(<<Move00, Node("unknown_operation", <<>>), DrawX5>>)>>)

\* aperture definitions, selections and flashes, attributes, and the odd nodes
Extras == { Node("ad", <<Tok(D10), Node("template_circle", <<Tok(<<"0", ".", "0", "1", "0">>)>>)>>),
            Node("dnn", <<Tok(D10)>>), Node("dnn", <<Tok(D11)>>),
            Node("d03", <<XCoord(Num(5))>>),
            Node("g37", <<>>),
            OddRegion }
          \cup AttrNodes \cup OddAMNodes \cup ShortADNodes

\* LM nodes: the four mirroring tokens, lower-case spellings, tokens that
\* name no mirroring, and a node without token
Mirrors == { Node("lm", <<Tok(t)>>) :
             t \in { <<"N">>, <<"X">>, <<"Y">>, <<"X", "Y">>, <<"n">>, <<"x", "y">>, <<"x", "Y">>,
                     <<"Z">>, <<"Y", "X">> } }
           \cup { Node("lm", <<>>) }

\* the numerals at and just beyond the ends of the i32 range, a numeral of
\* eleven digits, and 2^32 + 5
MaxText == <<"2", "1", "4", "7", "4", "8", "3", "6", "4", "7">>
MinText == <<"-", "2", "1", "4", "7", "4", "8", "3", "6", "4", "8">>
TooSmall == <<"-", "2", "1", "4", "7", "4", "8", "3", "6", "4", "9">>
ElevenDigits == <<"2", "1", "4", "7", "4", "8", "3", "6", "4", "7", "0">>
Wraps5 == <<"4", "2", "9", "4", "9", "6", "7", "3", "0", "1">>

\* plot operations with coordinates and offsets at and beyond the i32 range
Limits == { Node("d01", OpArgs(<<MaxText>>, <<MinText>>, <<MinText, MaxText>>)),
            Node("d01", OpArgs(<<Num(5)>>, <<TooSmall>>, <<>>)),
            Node("d01", OpArgs(<<Wraps5>>, <<>>, <<>>)),
            Node("d01", OpArgs(<<>>, <<Num(0)>>, <<TooBig, Num(0)>>)),
            Node("d01", OpArgs(<<>>, <<>>, <<Num(0), TooSmall>>)),
            Node("d02", OpArgs(<<MinText>>, <<MaxText>>, <<>>)),
            Node("d02", OpArgs(<<TooBig>>, <<Num(0)>>, <<>>)),
            Node("d02", OpArgs(<<>>, <<ElevenDigits>>, <<>>)),
            Node("d03", OpArgs(<<MaxText>>, <<>>, <<>>)),
            Node("d03", OpArgs(<<Num(5)>>, <<TooBig>>, <<>>)),
            Node("d03", OpArgs(<<TooSmall>>, <<>>, <<>>)) }

\* the child nodes of the root are drawn from one of these families
Families == {Statements, Operations, Headers, Extras, Mirrors, Limits}

\* the syntax tree of tests/two_square_boxes.gbr
D01X(x) == Node("d01", <<XCoord(Num(x))>>)
D01Y(y) == Node("d01", <<YCoord(Num(y))>>)

TwoSquareBoxes ==
    << Node("g04", <<Tok(<<"Ucamco ex. 1: Two square boxes">>)>>),
       Node("mo", <<Tok(<<"M", "M">>)>>),
       Node("fs", <<Tok(Num(2)), Tok(Num(6)), Tok(Num(2)), Tok(Num(6))>>),
       Node("tf", <<Tok(<<".Part">>), Tok(<<"Other">>), Tok(<<"example">>)>>),
       Node("lp", <<Tok(<<"D">>)>>),
       Node("ad", <<Tok(D10), Node("template_circle", <<Tok(<<"0", ".", "0", "1", "0">>)>>)>>),
       Node("dnn", <<Tok(D10)>>),
       Node("d02", <<XCoord(Num(0)), YCoord(Num(0))>>),
       Node("g01", <<>>),
       Node("d01", <<XCoord(Num(5000000)), YCoord(Num(0))>>),
       D01Y(5000000),
       D01X(0),
       D01Y(0),
       Node("d02", <<XCoord(Num(6000000))>>),
       D01X(11000000),
       D01Y(5000000),
       D01X(6000000),
       D01Y(0),
       Node("m02", <<>>),
       Node("EOI", <<>>) >>

\* the documents explored: every sequence of at most MaxNodes nodes of one
\* family, and the two-square sample
Docs == UNION { SeqsUpTo(F, MaxNodes) : F \in Families } \cup {TwoSquareBoxes}

(***************************************************************************)
(* Gerber::new as a process: pc is its position.                           *)
(***************************************************************************)
Init ==
    /\ pc = "read"
    /\ doc = <<>>
    /\ idx = 1
    /\ commands = <<>>
    /\ origins = <<>>
    /\ visited = <<>>
    /\ result = "none"
    /\ ret = None
    /\ error = NoError
    /\ NoVisualizer

\* return Err(e): the local vector is dropped
ReturnErr(e) ==
    /\ pc' = "done"
    /\ result' = "Err"
    /\ ret' = None
    /\ error' = e
    /\ commands' = <<>>
    /\ origins' = <<>>

\* fs::read_to_string(path)? fails
ReadFail ==
    /\ pc = "read"
    /\ ReturnErr([kind |-> "IoError", msg |-> <<>>])
    /\ UNCHANGED <<doc, idx, visited>>
    /\ UNCHANGED render_vars

\* fs::read_to_string(path)? succeeds
ReadOk ==
    /\ pc = "read"
    /\ pc' = "grammar"
    /\ UNCHANGED <<doc, idx, commands, origins, visited, result, ret, error>>
    /\ UNCHANGED render_vars

\* GerberParser::parse(Rule::gerber_file, &content)? fails
GrammarFail ==
    /\ pc = "grammar"
    /\ ReturnErr([kind |-> "PestError", msg |-> <<>>])
    /\ UNCHANGED <<doc, idx, visited>>
    /\ UNCHANGED render_vars

\* the parse succeeds and pairs.next() is None
GrammarEmpty ==
    /\ pc = "grammar"
    /\ ReturnErr(SemanticError(<<"Empty Gerber file.">>))
    /\ UNCHANGED <<doc, idx, visited>>
    /\ UNCHANGED render_vars

\* the parse succeeds and pairs.next() is the root, with child nodes d
GrammarOk ==
    /\ pc = "grammar"
    /\ \E d \in Docs : doc' = d
    /\ pc' = "walk"
    /\ UNCHANGED <<idx, commands, origins, visited, result, ret, error>>
    /\ UNCHANGED render_vars

\* Walk with the result of parse_pair dropped instead of propagated by `?`
Walk_ignore_error ==
    /\ pc = "walk"
    /\ idx <= Len(doc)
    /\ LET r == parse_pair(doc[idx], <<idx>>, Vec(commands, origins))
       IN  /\ commands' = r.commands
           /\ origins' = r.origins
           /\ idx' = idx + 1
           /\ UNCHANGED <<pc, result, ret, error>>
    /\ visited' = Append(visited, idx)
    /\ UNCHANGED doc
    /\ UNCHANGED render_vars

\* one round of `for pair in root.into_inner()`: Self::parse_pair(pair, &mut commands)?
Walk ==
    /\ pc = "walk"
    /\ idx <= Len(doc)
    /\ LET r == parse_pair(doc[idx], <<idx>>, Vec(commands, origins))
       IN  IF r.ok
           THEN /\ commands' = r.commands
                /\ origins' = r.origins
                /\ idx' = idx + 1
                /\ UNCHANGED <<pc, result, ret, error>>
           ELSE /\ ReturnErr(r.err)
                /\ UNCHANGED idx
    /\ visited' = Append(visited, idx)
    /\ UNCHANGED doc
    /\ UNCHANGED render_vars

\* the loop is over: Ok(Gerber { commands })
Finish ==
    /\ pc = "walk"
    /\ idx > Len(doc)
    /\ pc' = "done"
    /\ result' = "Ok"
    /\ ret' = Some(commands)
    /\ UNCHANGED <<doc, idx, commands, origins, visited, error>>
    /\ UNCHANGED render_vars

Next == ReadFail \/ ReadOk \/ GrammarFail \/ GrammarEmpty \/ GrammarOk \/ Walk \/ Finish

Spec == Init /\ [][Next]_vars

(***************************************************************************)
(* pub fn parse_pair called directly: the caller owns the vector           *)
(* `commands` and hands it to one call per node of doc, until a call       *)
(* returns Err.  The vector is then what the call left in it.              *)
(***************************************************************************)
InitCall ==
    /\ pc = "call"
    /\ doc \in Docs
    /\ idx = 1
    /\ commands = <<>>
    /\ origins = <<>>
    /\ visited = <<>>
    /\ result = "none"
    /\ ret = None
    /\ error = NoError
    /\ NoVisualizer

\* Gerber::parse_pair(pair, &mut commands), called by a caller of the crate
Call ==
    /\ pc = "call"
    /\ idx <= Len(doc)
    /\ LET r == parse_pair(doc[idx], <<idx>>, Vec(commands, origins))
       IN  /\ commands' = r.commands
           /\ origins' = r.origins
           /\ result' = IF r.ok THEN "Ok" ELSE "Err"
           /\ error' = r.err
           /\ idx' = IF r.ok THEN idx + 1 ELSE idx
           /\ pc' = IF r.ok THEN "call" ELSE "done"
    /\ visited' = Append(visited, idx)
    /\ UNCHANGED <<doc, ret>>
    /\ UNCHANGED render_vars

NextCall == Call

SpecCall == InitCall /\ [][NextCall]_vars

(***************************************************************************)
(* Two invocations of Gerber::new side by side.  Every variable is here a  *)
(* function of the invocation: each invocation has its own syntax tree     *)
(* doc[p], its own local vector commands[p] and its own position.  A step  *)
(* is one round of the loop of one invocation.                             *)
(***************************************************************************)
Procs == {1, 2}

\* the nodes of the trees parsed side by side
ParNodes == { Move00, DrawNoJ, Region(<<Contour(Body(1))>>) }

ParDocs == SeqsUpTo(ParNodes, MaxNodes)

InitPar ==
    /\ pc = [p \in Procs |-> "walk"]
    /\ doc \in [Procs -> ParDocs]
    /\ idx = [p \in Procs |-> 1]
    /\ commands = [p \in Procs |-> <<>>]
    /\ origins = [p \in Procs |-> <<>>]
    /\ visited = [p \in Procs |-> <<>>]
    /\ result = [p \in Procs |-> "none"]
    /\ ret = [p \in Procs |-> None]
    /\ error = [p \in Procs |-> NoError]
    /\ NoVisualizer

\* WalkPar with one vector for all invocations, as a `static mut` would be
WalkPar_shared_vector(p) ==
    /\ pc[p] = "walk"
    /\ idx[p] <= Len(doc[p])
    /\ LET r == parse_pair(doc[p][idx[p]], <<idx[p]>>, Vec(commands[1], origins[1]))
       IN  IF r.ok
           THEN /\ commands' = [commands EXCEPT ![1] = r.commands]
                /\ origins' = [origins EXCEPT ![1] = r.origins]
                /\ idx' = [idx EXCEPT ![p] = idx[p] + 1]
                /\ UNCHANGED <<pc, result, ret, error>>
           ELSE /\ pc' = [pc EXCEPT ![p] = "done"]
                /\ result' = [result EXCEPT ![p] = "Err"]
                /\ ret' = [ret EXCEPT ![p] = None]
                /\ error' = [error EXCEPT ![p] = r.err]
                /\ commands' = [commands EXCEPT ![1] = <<>>]
                /\ origins' = [origins EXCEPT ![1] = <<>>]
                /\ UNCHANGED idx
    /\ visited' = [visited EXCEPT ![p] = Append(visited[p], idx[p])]
    /\ UNCHANGED doc
    /\ UNCHANGED render_vars

\* one round of the loop of invocation p
WalkPar(p) ==
    /\ pc[p] = "walk"
    /\ idx[p] <= Len(doc[p])
    /\ LET r == parse_pair(doc[p][idx[p]], <<idx[p]>>, Vec(commands[p], origins[p]))
       IN  IF r.ok
           THEN /\ commands' = [commands EXCEPT ![p] = r.commands]
                /\ origins' = [origins EXCEPT ![p] = r.origins]
                /\ idx' = [idx EXCEPT ![p] = idx[p] + 1]
                /\ UNCHANGED <<pc, result, ret, error>>
           ELSE /\ pc' = [pc EXCEPT ![p] = "done"]
                /\ result' = [result EXCEPT ![p] = "Err"]
                /\ ret' = [ret EXCEPT ![p] = None]
                /\ error' = [error EXCEPT ![p] = r.err]
                /\ commands' = [commands EXCEPT ![p] = <<>>]
                /\ origins' = [origins EXCEPT ![p] = <<>>]
                /\ UNCHANGED idx
    /\ visited' = [visited EXCEPT ![p] = Append(visited[p], idx[p])]
    /\ UNCHANGED doc
    /\ UNCHANGED render_vars

\* the loop of invocation p is over: Ok(Gerber { commands })
FinishPar(p) ==
    /\ pc[p] = "walk"
    /\ idx[p] > Len(doc[p])
    /\ pc' = [pc EXCEPT ![p] = "done"]
    /\ result' = [result EXCEPT ![p] = "Ok"]
    /\ ret' = [ret EXCEPT ![p] = Some(commands[p])]
    /\ UNCHANGED <<doc, idx, commands, origins, visited, error>>
    /\ UNCHANGED render_vars

NextPar == \E p \in Procs : WalkPar(p) \/ FinishPar(p)

SpecPar == InitPar /\ [][NextPar]_vars

(***************************************************************************)
(* Properties.                                                             *)
(***************************************************************************)
Last(s) == s[Len(s)]

EmptyVec == Vec(<<>>, <<>>)

\* decoding node n on its own fails
NodeFails(n) == ~parse_pair(n, <<1>>, EmptyVec).ok

\* the commands node n decodes to on its own
NodeCommands(n) == parse_pair(n, <<1>>, EmptyVec).commands

\* the root's children have been walked (the run did not end in the
\* reading or the grammar stage)
Walked == pc = "done" /\ (result = "Ok" \/ visited # <<>>)

\* C1: Gerber::new decodes the root's children in document order and stops
\* at the first node whose decoding fails, returning Err with no command
\* sequence and decoding no later node; it returns Ok(commands) only when
\* every node was decoded without error.
C1_FailFast ==
    /\ visited = [k \in 1..Len(visited) |-> k]
    /\ \A k \in 1..(Len(visited) - 1) : ~NodeFails(doc[k])
    /\ result = "Err" => ret = None
    /\ (result = "Err" /\ visited # <<>>) => NodeFails(doc[Len(visited)])
    /\ result = "Ok" => /\ Len(visited) = Len(doc)
                        /\ \A k \in 1..Len(doc) : ~NodeFails(doc[k])
                        /\ ret = Some(commands)

\* a parse stopped by a node that is followed by a further node
C1_Witness ==
    /\ result = "Err"
    /\ visited # <<>>
    /\ Len(visited) < Len(doc)

\* p comes before q in the depth-first, left-to-right walk of the tree
RECURSIVE PathLess(_, _)
PathLess(p, q) ==
    IF p = <<>> THEN q # <<>>
    ELSE IF q = <<>> THEN FALSE
    ELSE IF Head(p) # Head(q) THEN Head(p) < Head(q)
    ELSE PathLess(Tail(p), Tail(q))

\* C2: in the output of every successful parse, commands appear in the
\* document order of the nodes that produced them.
C2_DocumentOrder ==
    result = "Ok" =>
        /\ Len(origins) = Len(ret[1])
        /\ \A i, j \in 1..Len(origins) : i < j => PathLess(origins[i], origins[j])

\* a successful parse whose output holds commands of nested nodes
C2_Witness ==
    /\ result = "Ok"
    /\ \E i \in 1..Len(origins) : Len(origins[i]) = 3
    /\ \E i \in 1..Len(origins) : Len(origins[i]) = 1 /\ origins[i][1] = 2

\* the contour bodies of a region node: its children but the two markers
ContoursOf(n) == SubSeq(n.inner, 2, Len(n.inner) - 1)

\* a region node with at least one contour body between its markers
IsRegion(n) ==
    /\ n.rule = "region_statement"
    /\ Len(n.inner) >= 3
    /\ n.inner[1].rule = "g36"
    /\ n.inner[Len(n.inner)].rule = "g37"
    /\ \A k \in 1..Len(ContoursOf(n)) : ContoursOf(n)[k].rule = "contour"

RECURSIVE Flatten(_)
Flatten(ss) == IF ss = <<>> THEN <<>> ELSE Head(ss) \o Flatten(Tail(ss))

\* every operation of every contour body of region n, in original order
RegionOps(n) == Flatten([k \in 1..Len(ContoursOf(n)) |-> ContoursOf(n)[k].inner])

\* C3: a region node with contour bodies c1..cn (n >= 1) decodes to exactly
\* G36, the command of every operation of c1, ..., cn in original order,
\* G37; it is decoded when each of its operations can be decoded.
C3_RegionFlattened ==
    [][ (pc = "walk" /\ idx <= Len(doc) /\ IsRegion(doc[idx])) =>
          LET ops == RegionOps(doc[idx])
          IN  IF \E k \in 1..Len(ops) : NodeFails(ops[k])
              THEN result' = "Err"
              ELSE commands' = commands \o <<[cmd |-> "G36"]>>
                                 \o Flatten([k \in 1..Len(ops) |-> NodeCommands(ops[k])])
                                 \o <<[cmd |-> "G37"]>> ]_vars

\* a region with two contour bodies has been decoded
C3_Witness ==
    /\ pc = "walk"
    /\ idx > 1
    /\ IsRegion(doc[idx - 1])
    /\ Len(ContoursOf(doc[idx - 1])) = 2
    /\ Last(commands) = [cmd |-> "G37"]

\* largest magnitude of a coordinate numeral the properties read
MaxCoord == 9

\* numeral text t denotes an integer of magnitude at most MaxCoord
HasValue(t) == \E v \in (-MaxCoord)..MaxCoord : t = Num(v) \/ (v >= 0 /\ t = <<"+">> \o Num(v))

\* the integer that numeral text t denotes
IntValue(t) == CHOOSE v \in (-MaxCoord)..MaxCoord : t = Num(v) \/ (v >= 0 /\ t = <<"+">> \o Num(v))

\* the children of node n with rule r
Children(n, r) == SelectSeq(n.inner, LAMBDA c : c.rule = r)

\* every coordinate and offset token of operation node n is a numeral
CoordsValid(n) ==
    \A k \in 1..Len(n.inner) :
        /\ n.inner[k].inner # <<>>
        /\ \A m \in 1..Len(n.inner[k].inner) : HasValue(n.inner[k].inner[m].str)

\* Some(v) when operation node n carries a coordinate of rule r with value v
Carried(n, r) ==
    IF Children(n, r) = <<>> THEN None ELSE Some(IntValue(Children(n, r)[1].inner[1].str))

\* the node at position k of the root was decoded without error
Succeeded(k) == k < Len(visited) \/ (k = Len(visited) /\ result # "Err")

\* the parse stopped with an error at position k of the root
Failed(k) == k = Len(visited) /\ result = "Err"

\* the node before position idx has just been decoded
Decoded(k) == k >= 1 /\ k = idx - 1 /\ k = Len(visited) /\ result # "Err"

IsOperation(n) == n.rule \in {"d01", "d02", "d03"} /\ CoordsValid(n)

OpName(n) == CASE n.rule = "d01" -> "D01" [] n.rule = "d02" -> "D02" [] n.rule = "d03" -> "D03"

D01WithOffsets(n, cnt) ==
    /\ n.rule = "d01"
    /\ CoordsValid(n)
    /\ Len(Children(n, "ij_coords")) = 1
    /\ Len(Children(n, "ij_coords")[1].inner) = cnt

IsFS(n) ==
    /\ n.rule = "fs"
    /\ \A k \in 1..Len(n.inner) : Len(n.inner[k].str) = 1 /\ HasValue(n.inner[k].str)

\* C6: an FS node with exactly four digit tokens a, b, c, d decodes to
\* FS{x_integer_digits = a, x_decimal_digits = b, y_integer_digits = c,
\* y_decimal_digits = d}; an FS node with fewer or with more than four
\* tokens fails and produces no FS command.
C6_FormatSpecification ==
    \A k \in 1..Len(visited) :
        IsFS(doc[k]) =>
            IF Len(doc[k].inner) = 4
            THEN /\ Succeeded(k)
                 /\ Decoded(k) =>
                      Last(commands) = [cmd |-> "FS",
                                        x_integer_digits |-> IntValue(doc[k].inner[1].str),
                                        x_decimal_digits |-> IntValue(doc[k].inner[2].str),
                                        y_integer_digits |-> IntValue(doc[k].inner[3].str),
                                        y_decimal_digits |-> IntValue(doc[k].inner[4].str)]
            ELSE /\ Failed(k)
                 /\ ret = None
                 /\ NodeCommands(doc[k]) = <<>>

\* an FS node with four tokens decoded, then one with five stopping the parse
C6_Witness ==
    /\ Len(visited) = 2
    /\ IsFS(doc[1]) /\ Len(doc[1].inner) = 4
    /\ IsFS(doc[2]) /\ Len(doc[2].inner) = 5
    /\ Failed(2)

\* C7: Gerber::new never returns Ok with an empty command sequence: an
\* input that yields no command fails with an "empty file" semantic error.
C7_NeverEmptyOk ==
    result = "Ok" => ret # Some(<<>>)

\* the token spells the unit u in upper or lower case letters
Spells(t, u) ==
    /\ Len(t) = 2
    /\ \A k \in 1..2 : \E m \in 1..26 : UpperChars[m] = u[k] /\ t[k] \in {UpperChars[m], LowerChars[m]}

\* text t occurs in message msg
Contains(msg, t) == \E a \in 0..(Len(msg) - Len(t)) : SubSeq(msg, a + 1, a + Len(t)) = t

\* C8: an MO node decodes to Millimeters for the token "MM" and to Inches
\* for the token "IN", compared case-insensitively; for every other unit
\* token the parse fails with an error whose message contains the token,
\* and no MO command is produced.
C8_Units ==
    \A k \in 1..Len(visited) :
        (doc[k].rule = "mo" /\ Len(doc[k].inner) = 1) =>
            LET t == doc[k].inner[1].str
            IN  IF Spells(t, <<"M", "M">>) \/ Spells(t, <<"I", "N">>)
                THEN /\ Succeeded(k)
                     /\ Decoded(k) =>
                          Last(commands) = [cmd |-> "MO",
                                            unit |-> IF Spells(t, <<"M", "M">>)
                                                     THEN "Millimeters" ELSE "Inches"]
                ELSE /\ Failed(k)
                     /\ error.kind = "SemanticError"
                     /\ Contains(error.msg, t)
                     /\ ret = None
                     /\ NodeCommands(doc[k]) = <<>>

\* a unit in mixed case decoded, then an unknown unit stopping the parse
C8_Witness ==
    /\ Len(visited) = 2
    /\ doc[1].rule = "mo" /\ Len(doc[1].inner) = 1 /\ doc[1].inner[1].str = <<"i", "N">>
    /\ doc[2].rule = "mo" /\ Len(doc[2].inner) = 1 /\ doc[2].inner[1].str = <<"C", "M">>
    /\ Failed(2)
    /\ Contains(error.msg, <<"C", "M">>)

D01Cmd(x, y) == [cmd |-> "D01", x |-> x, y |-> y, i |-> None, j |-> None]

\* the expected_commands of test_parse_two_square_boxes
TwoSquareBoxesExpected ==
    << [cmd |-> "G04", text |-> <<"Ucamco ex. 1: Two square boxes">>],
       [cmd |-> "MO", unit |-> "Millimeters"],
       [cmd |-> "FS", x_integer_digits |-> 2, x_decimal_digits |-> 6,
                      y_integer_digits |-> 2, y_decimal_digits |-> 6],
       [cmd |-> "TF", name |-> <<".Part">>, values |-> << <<"Other">>, <<"example">> >>],
       [cmd |-> "LP", polarity |-> "Dark"],
       [cmd |-> "AD", code |-> 10,
        template |-> [kind |-> "Circle", diameter |-> [m |-> 1, e |-> 2], hole |-> None]],
       [cmd |-> "Dnn", code |-> 10],
       [cmd |-> "D02", x |-> Some(0), y |-> Some(0)],
       [cmd |-> "G01"],
       D01Cmd(Some(5000000), Some(0)),
       D01Cmd(None, Some(5000000)),
       D01Cmd(Some(0), None),
       D01Cmd(None, Some(0)),
       [cmd |-> "D02", x |-> Some(6000000), y |-> None],
       D01Cmd(Some(11000000), None),
       D01Cmd(None, Some(5000000)),
       D01Cmd(Some(6000000), None),
       D01Cmd(None, Some(0)),
       [cmd |-> "M02"] >>

IsOutlineMacro(n) ==
    /\ n.rule = "am"
    /\ Len(n.inner) = 2
    /\ n.inner[2].rule = "primitive_outline"
    /\ Len(n.inner[2].inner) >= 4
    /\ Len(n.inner[2].inner) % 2 = 0

\* the decimal written in text t, read digit by digit from the right
RECURSIVE DecimalOf(_, _, _, _)
DecimalOf(t, k, m, e) ==
    IF k > Len(t) THEN [m |-> m, e |-> e]
    ELSE IF t[k] = "." THEN DecimalOf(t, k + 1, m, 0)
    ELSE IF t[k] = "-" THEN [m |-> -DecimalOf(t, k + 1, m, e).m, e |-> DecimalOf(t, k + 1, m, e).e]
    ELSE DecimalOf(t, k + 1, 10 * m + IntValue(<<t[k]>>), IF e < 0 THEN e ELSE e + 1)

\* the number a token of an outline body denotes
TokenValue(t) ==
    LET d == DecimalOf(t, 1, 0, -1)
    IN  IF d.e < 0 THEN [m |-> d.m, e |-> 0] ELSE Normalise(d.m, d.e)

\* C10: for an outline primitive whose tokens are an exposure flag, n >= 1
\* coordinate pairs and one trailing rotation, the decoded Outline carries
\* all n points in source order and its rotation equals the trailing value.
C10_OutlineComplete ==
    \A k \in 1..Len(doc) :
        (Decoded(k) /\ IsOutlineMacro(doc[k])) =>
            LET toks == doc[k].inner[2].inner
                n    == (Len(toks) - 2) \div 2
                prim == Last(commands).primitives[1]
            IN  /\ prim.points = [p \in 1..n |-> <<TokenValue(toks[2 * p].str),
                                                  TokenValue(toks[2 * p + 1].str)>>]
                /\ prim.rotation = TokenValue(toks[Len(toks)].str)

\* the node kinds named by an arm of the match in parse_pair
DispatchTable ==
    {"g04", "mo", "fs", "ad", "am", "dnn", "g01", "g02", "g03", "g75", "d01", "d02", "d03",
     "lp", "lm", "lr", "ls", "region_statement", "ab_statement", "sr_statement",
     "tf", "ta", "to", "td", "m02"}

\* C11: when a contour body of a region contains a node of a kind the parser
\* does not support, decoding the region fails with an error; the node is
\* never silently skipped.
C11_UnsupportedInContourFails ==
    [][ ( /\ pc = "walk"
          /\ idx <= Len(doc)
          /\ IsRegion(doc[idx])
          /\ \E k \in 1..Len(RegionOps(doc[idx])) :
                 RegionOps(doc[idx])[k].rule \notin DispatchTable )
        => result' = "Err" ]_vars

\* C12: for a node whose kind is not in the dispatch table, parse_pair
\* produces no command for the node itself but dispatches each of its
\* children in order, so every recognized command nested under such a node
\* appears in the output.
C12_ChildrenOfUnknownVisited ==
    [][ (pc = "walk" /\ idx <= Len(doc) /\ doc[idx].rule \notin DispatchTable) =>
          LET children == doc[idx].inner
          IN  /\ result' # "Err"
              /\ commands' = commands
                               \o Flatten([k \in 1..Len(children) |-> NodeCommands(children[k])]) ]_vars

\* the command an attribute node of kind TA, TO or TD stands for
AttributeCommand(n) ==
    IF n.rule = "td"
    THEN [cmd |-> "TD", name |-> IF n.inner = <<>> THEN None ELSE Some(n.inner[1].str)]
    ELSE [cmd |-> IF n.rule = "ta" THEN "TA" ELSE "TO",
          name |-> n.inner[1].str,
          values |-> [k \in 1..(Len(n.inner) - 1) |-> n.inner[k + 1].str]]

\* C13: every attribute node of kind TA, TO or TD is decoded to one command
\* in the output: TA and TO carry the attribute name followed by its value
\* tokens in order, TD carries the optional name (absent name = delete all).
C13_AttributesDecoded ==
    \A k \in 1..Len(doc) :
        (Decoded(k) /\ doc[k].rule \in {"ta", "to", "td"}) =>
            /\ commands # <<>>
            /\ Last(commands) = AttributeCommand(doc[k])
            /\ Last(origins) = <<k>>

\* the number of parameters a primitive node of the macro language must
\* carry, 0 for a node without parameters
RequiredParameters(p) ==
    CASE p.rule = "primitive_circle" -> 4
      [] p.rule = "primitive_vector_line" -> 7
      [] p.rule = "primitive_center_line" -> 6
      [] p.rule = "primitive_outline" -> 4
      [] p.rule = "primitive_polygon" -> 6
      [] p.rule = "primitive_thermal" -> 6
      [] p.rule = "variable_definition" -> 2
      [] OTHER -> 0

\* the number of leading parameters of a primitive node that are numerals
NumeralParameters(p) ==
    CASE p.rule = "variable_definition" -> 1
      [] p.rule = "primitive_comment" -> 0
      [] OTHER -> Len(p.inner)

\* primitive node p lacks a required parameter or carries text that is no numeral
Malformed(p) ==
    \/ Len(p.inner) < RequiredParameters(p)
    \/ /\ RequiredParameters(p) > 0
       /\ \E k \in 1..Len(p.inner) :
             k <= NumeralParameters(p) /\ parse_f64_str(p.inner[k].str) = <<>>

\* the primitive nodes of macro node n: its children but the name token
MacroBody(n) == Tail(n.inner)

\* C14: a missing required parameter or an unparsable numeral inside an
\* aperture-macro primitive makes the whole parse fail; it is never replaced
\* by a default value such as 0 or false.
C14_MalformedPrimitiveFails ==
    \A k \in 1..Len(visited) :
        ( /\ doc[k].rule = "am"
          /\ doc[k].inner # <<>>
          /\ \E m \in 1..Len(MacroBody(doc[k])) : Malformed(MacroBody(doc[k])[m]) )
        => Failed(k)

\* the number of parameters a standard template must carry: the circle
\* diameter; the x-size and y-size of a rectangle or obround; the outer
\* diameter and vertex count of a polygon
MandatoryParameters(t) ==
    CASE t.rule = "template_circle" -> 1
      [] t.rule \in {"template_rectangle", "template_obround", "template_polygon"} -> 2
      [] OTHER -> 0

\* C15: an AD node whose standard template (circle, rectangle, obround,
\* polygon) lacks one of its mandatory parameters makes the parse fail with
\* a semantic error; no AD command with a defaulted 0 parameter is produced.
C15_ShortTemplateFails ==
    \A k \in 1..Len(visited) :
        ( /\ doc[k].rule = "ad"
          /\ Len(doc[k].inner) >= 2
          /\ Len(doc[k].inner[2].inner) < MandatoryParameters(doc[k].inner[2]) )
        => (Failed(k) /\ error.kind = "SemanticError")

\* the number of FS commands in command sequence s
FSCount(s) == Cardinality({k \in 1..Len(s) : s[k].cmd = "FS"})

\* C16: every successfully returned command sequence contains at most one
\* FS command: once an FS node has been decoded in a parse, a later FS node
\* in the same input makes the parse fail.
C16_SingleFormatSpecification ==
    result = "Ok" => FSCount(ret[1]) <= 1

\* the region nesting depth after each command of s, starting from depth d:
\* G36 opens a region, G37 closes one
RECURSIVE Depths(_, _)
Depths(s, d) ==
    IF s = <<>> THEN <<>>
    ELSE LET n == CASE Head(s).cmd = "G36" -> d + 1
                    [] Head(s).cmd = "G37" -> d - 1
                    [] OTHER -> d
         IN  <<n>> \o Depths(Tail(s), n)

\* the G36 and G37 markers of s, in order
Markers(s) == SelectSeq(s, LAMBDA c : c.cmd \in {"G36", "G37"})

C18_VectorUntouchedOnError ==
    [][ (pc = "call" /\ result' = "Err") => commands' = commands ]_vars

\* the primitive kinds the am arm names, and the AMPrimitive variant of each
RecognizedPrimitives ==
    {"primitive_comment", "primitive_circle", "primitive_vector_line", "primitive_center_line",
     "primitive_outline", "primitive_polygon", "primitive_thermal", "variable_definition"}

PrimitiveVariant(rule) ==
    CASE rule = "primitive_comment" -> "Comment"
      [] rule = "primitive_circle" -> "Circle"
      [] rule = "primitive_vector_line" -> "VectorLine"
      [] rule = "primitive_center_line" -> "CenterLine"
      [] rule = "primitive_outline" -> "Outline"
      [] rule = "primitive_polygon" -> "Polygon"
      [] rule = "primitive_thermal" -> "Thermal"
      [] rule = "variable_definition" -> "VariableDefinition"

\* the recognized primitive nodes of macro node n, in the order of its body
RecognizedBody(n) == SelectSeq(MacroBody(n), LAMBDA p : p.rule \in RecognizedPrimitives)

\* C19: the primitive list of a decoded AM command contains exactly one
\* AMPrimitive for each recognized primitive node of the macro body, in the
\* order of the body; a primitive node of an unrecognized kind contributes
\* nothing and does not abort the decode.
C19_PrimitiveList ==
    \A k \in 1..Len(doc) :
        (doc[k].rule = "am" /\ doc[k].inner # <<>> /\ k <= Len(visited)) =>
            /\ Succeeded(k)
            /\ Decoded(k) =>
                  LET body == RecognizedBody(doc[k])
                      prims == Last(commands).primitives
                  IN  /\ Last(commands).cmd = "AM"
                      /\ Len(prims) = Len(body)
                      /\ \A m \in 1..Len(body) : prims[m].prim = PrimitiveVariant(body[m].rule)

\* a macro whose body holds a node of an unrecognized kind between two
\* recognized primitives has been decoded
C19_Witness ==
    \E k \in 1..Len(doc) :
        /\ Decoded(k)
        /\ doc[k].rule = "am"
        /\ Len(MacroBody(doc[k])) = 3
        /\ MacroBody(doc[k])[2].rule \notin RecognizedPrimitives
        /\ Len(Last(commands).primitives) = 2

\* largest aperture code the properties read
MaxCode == 11

\* text t is the letter D followed by the numeral of a code up to MaxCode
HasCode(t) == \E n \in 0..MaxCode : t = <<"D">> \o Num(n)

\* the aperture code that text t denotes
CodeOf(t) == CHOOSE n \in 0..MaxCode : t = <<"D">> \o Num(n)

\* an aperture-select node Dn with a code the properties read
IsSelect(n) == n.rule = "dnn" /\ Len(n.inner) = 1 /\ HasCode(n.inner[1].str)

\* an AD command with code c is among the commands of s
Defined(s, c) == \E k \in 1..Len(s) : s[k].cmd = "AD" /\ s[k].code = c

\* C20: an aperture-select node Dn decodes to Dnn(n) whether or not an AD
\* command with code n occurs anywhere earlier in the input: the result of
\* decoding a select (or a flash) never depends on the aperture definitions
\* seen so far.
C20_SelectIndependent ==
    \A k \in 1..Len(visited) :
        /\ IsSelect(doc[k]) =>
              /\ Succeeded(k)
              /\ Decoded(k) => Last(commands) = [cmd |-> "Dnn", code |-> CodeOf(doc[k].inner[1].str)]
        /\ (doc[k].rule \in {"dnn", "d03"} /\ Decoded(k) /\ ~NodeFails(doc[k])) =>
              Last(commands) = Last(NodeCommands(doc[k]))

\* aperture D11 has been selected after the definition of aperture D10 only
C20_Witness ==
    /\ Len(doc) = 2
    /\ Decoded(2)
    /\ IsSelect(doc[2])
    /\ Defined(commands, 10)
    /\ ~Defined(commands, CodeOf(doc[2].inner[1].str))
    /\ Last(commands).cmd = "Dnn"

\* the loop of Gerber::new over the nodes of d from position k, run alone
RECURSIVE walk_alone(_, _, _)
walk_alone(d, k, st) ==
    IF k > Len(d) THEN [result |-> "Ok", ret |-> Some(st.commands), error |-> NoError]
    ELSE LET r == parse_pair(d[k], <<k>>, st)
         IN  IF r.ok THEN walk_alone(d, k + 1, Vec(r.commands, r.origins))
             ELSE [result |-> "Err", ret |-> None, error |-> r.err]

\* what Gerber::new returns for the tree d when it runs alone
Alone(d) == walk_alone(d, 1, EmptyVec)

\* C21: two parse invocations running in parallel, with their node-decoding
\* steps interleaved in any order, each return the same result as when run
\* alone: no invocation reads or writes any state of the other.
C21_ParallelIsolation ==
    \A p \in Procs :
        pc[p] = "done" =>
            [result |-> result[p], ret |-> ret[p], error |-> error[p]] = Alone(doc[p])

\* invocation 1 has returned Ok while invocation 2, on another tree, is
\* between two of its nodes with commands in its vector
C21_Witness ==
    /\ pc[1] = "done" /\ result[1] = "Ok" /\ Len(doc[1]) = 2
    /\ pc[2] = "walk" /\ idx[2] = 2 /\ Len(doc[2]) = 2 /\ commands[2] # <<>>
    /\ doc[1] # doc[2]

\* the mirroring tokens and the Mirroring variant each stands for
MirroringTokens == { <<"N">>, <<"X">>, <<"Y">>, <<"X", "Y">> }

MirroringOf(u) ==
    CASE u = <<"N">> -> "None"
      [] u = <<"X">> -> "X"
      [] u = <<"Y">> -> "Y"
      [] u = <<"X", "Y">> -> "XY"

\* text t spells the upper-case text u, letter case ignored
SpellsAnyCase(t, u) ==
    /\ Len(t) = Len(u)
    /\ \A k \in 1..Len(u) :
          \E m \in 1..26 : UpperChars[m] = u[k] /\ t[k] \in {UpperChars[m], LowerChars[m]}

\* the token of an LM node, <<>> when the node has none
MirrorToken(n) == IF n.inner = <<>> THEN <<>> ELSE n.inner[1].str

\* C22 as stated: an LM node decodes to Mirroring None, X, Y or XY for the
\* token "N", "X", "Y" or "XY" respectively, and the parse fails with an
\* error for every other token and for a missing token.
C22_MirroringAsStated ==
    \A k \in 1..Len(visited) :
        doc[k].rule = "lm" =>
            IF MirrorToken(doc[k]) \in MirroringTokens
            THEN /\ Succeeded(k)
                 /\ Decoded(k) =>
                       Last(commands) = [cmd |-> "LM", mirroring |-> MirroringOf(MirrorToken(doc[k]))]
            ELSE Failed(k)

\* C22 amended: an LM node decodes to Mirroring None, X, Y or XY when its
\* token spells "N", "X", "Y" or "XY" in any letter case, and the parse
\* fails with a semantic error for every other token and for a missing token.
C22_Mirroring ==
    \A k \in 1..Len(visited) :
        doc[k].rule = "lm" =>
            IF \E u \in MirroringTokens : SpellsAnyCase(MirrorToken(doc[k]), u)
            THEN /\ Succeeded(k)
                 /\ Decoded(k) =>
                       \E u \in MirroringTokens :
                           /\ SpellsAnyCase(MirrorToken(doc[k]), u)
                           /\ Last(commands) = [cmd |-> "LM", mirroring |-> MirroringOf(u)]
            ELSE Failed(k) /\ error.kind = "SemanticError"

\* the token N and then the lower-case token xy have been decoded
C22_Witness ==
    /\ Len(doc) = 2
    /\ Decoded(2)
    /\ doc[1].rule = "lm" /\ MirrorToken(doc[1]) = <<"N">>
    /\ doc[2].rule = "lm" /\ MirrorToken(doc[2]) = <<"x", "y">>
    /\ Last(commands) = [cmd |-> "LM", mirroring |-> "XY"]

\* impl Display for Command: the text written for one command.  The last
\* arm writes the derived Debug text, which begins with the variant name;
\* the text of the fields is one chunk here.
fmt(command) ==
    CASE command.cmd = "G04" -> <<"Comment: ">> \o command.text
      [] command.cmd = "MO" -> <<"Set units: ", command.unit>>
      [] command.cmd = "FS" -> <<"Format: ">> \o Num(command.x_integer_digits) \o <<".">>
                                 \o Num(command.x_decimal_digits) \o <<"/">>
                                 \o Num(command.y_integer_digits) \o <<".">>
                                 \o Num(command.y_decimal_digits)
      [] command.cmd = "M02" -> <<"End of file">>
      [] OTHER -> IF DOMAIN command = {"cmd"} THEN <<command.cmd>>
                  ELSE <<command.cmd, "(", "{:?}", ")">>

\* the text emitted for a command sequence, one line per command
Emit(cmds) == [k \in 1..Len(cmds) |-> fmt(cmds[k])]

\* the statement a line of source text is, <<>> when it is none: a word
\* command ends with "*", an extended command is enclosed in "%" and ends
\* with "*%".  Of the statement forms only those below are told apart.
statement(line) ==
    CASE line = <<"M02", "*">> -> <<Node("m02", <<>>)>>
      [] line = <<"G01", "*">> -> <<Node("g01", <<>>)>>
      [] line = <<"G02", "*">> -> <<Node("g02", <<>>)>>
      [] line = <<"G03", "*">> -> <<Node("g03", <<>>)>>
      [] line = <<"G75", "*">> -> <<Node("g75", <<>>)>>
      [] Len(line) = 3 /\ line[1] = "G04 " /\ line[3] = "*" -> <<Node("g04", <<Tok(<<line[2]>>)>>)>>
      [] line = <<"%", "MO", "MM", "*", "%">> -> <<Node("mo", <<Tok(<<"M", "M">>)>>)>>
      [] line = <<"%", "MO", "IN", "*", "%">> -> <<Node("mo", <<Tok(<<"I", "N">>)>>)>>
      [] OTHER -> <<>>

\* GerberParser::parse(Rule::gerber_file, text): [ok, tree]
gerber_file(lines) ==
    IF \E k \in 1..Len(lines) : statement(lines[k]) = <<>>
    THEN [ok |-> FALSE, tree |-> <<>>]
    ELSE [ok |-> TRUE,
          tree |-> [k \in 1..Len(lines) |-> statement(lines[k])[1]] \o <<Node("EOI", <<>>)>>]

\* Gerber::new on the text `lines`
Reparse(lines) ==
    IF gerber_file(lines).ok THEN Alone(gerber_file(lines).tree)
    ELSE [result |-> "Err", ret |-> None, error |-> [kind |-> "PestError", msg |-> <<>>]]

\* C23: for any valid input, emitting the parsed command sequence as
\* canonical source text and parsing that text again yields a command
\* sequence identical to the first one.
C23_RoundTrip ==
    result = "Ok" =>
        Reparse(Emit(ret[1])) = [result |-> "Ok", ret |-> ret, error |-> NoError]

\* a region node without contour body: the G36 node and the G37 node only
IsEmptyRegion(n) ==
    /\ n.rule = "region_statement"
    /\ Len(n.inner) = 2
    /\ n.inner[1].rule = "g36"
    /\ n.inner[2].rule = "g37"

\* C24: a region node that contains no contour body is never decoded into a
\* bare G36, G37 pair: decoding it fails with an error.
C24_EmptyRegionFails ==
    \A k \in 1..Len(visited) : IsEmptyRegion(doc[k]) => Failed(k)

\* C25: in every command sequence returned by a successful parse, an M02
\* command, when present, is the last command: no node that follows the
\* end-of-file node adds a command after it.
C25_EndOfFileLast ==
    result = "Ok" =>
        \A k \in 1..Len(ret[1]) : ret[1][k].cmd = "M02" => k = Len(ret[1])

\* digit text a is greater than digit text b of the same length
RECURSIVE LexGreater(_, _)
LexGreater(a, b) ==
    IF a = <<>> THEN FALSE
    ELSE IF DigitVal(Head(a)) # DigitVal(Head(b)) THEN DigitVal(Head(a)) > DigitVal(Head(b))
    ELSE LexGreater(Tail(a), Tail(b))

\* digit text m, without leading zero, denotes more than digit text limit
Exceeds(m, limit) == Len(m) > Len(limit) \/ (Len(m) = Len(limit) /\ LexGreater(m, limit))

\* text t is a numeral whose value lies outside the signed 32-bit range
OutOfRange(t) ==
    LET m == IF t # <<>> /\ Head(t) \in {"-", "+"} THEN Tail(t) ELSE t
    IN  /\ m # <<>>
        /\ \A k \in 1..Len(m) : IsDigit(m[k])
        /\ Head(m) # "0"
        /\ IF Head(t) = "-" THEN Exceeds(m, Tail(MinText)) ELSE Exceeds(m, MaxText)

\* the coordinate and offset tokens of operation node n that the arm of n
\* converts: x and y of every operation, i and j of a D01
ConvertedTokens(n) ==
    UNION { { n.inner[k].inner[m].str :
                m \in { b \in 1..Len(n.inner[k].inner) :
                          b <= (IF n.inner[k].rule = "ij_coords" THEN 2 ELSE 1) } } :
            k \in { a \in 1..Len(n.inner) :
                      n.inner[a].rule \in (IF n.rule = "d01"
                                           THEN {"x_coord", "y_coord", "ij_coords"}
                                           ELSE {"x_coord", "y_coord"}) } }

\* integer v is the value of numeral text t
IsValueOf(v, t) ==
    IF v = I32Min THEN t = MinText
    ELSE t = Num(v) \/ (v >= 0 /\ t = <<"+">> \o Num(v))

\* field f of the decoded operation holds the value of token t
Holds(f, t) == f # None /\ IsValueOf(f[1], t)

\* C26: a coordinate token (x, y) of a D01, D02 or D03 node, or an offset
\* token (i, j) of a D01 node, whose integer value lies outside the signed
\* 32-bit range makes the parse fail with a semantic error; a wrapped or
\* truncated value is never stored in x, y, i or j: what a decoded
\* operation stores is the value its token denotes.
C26_RangeChecked ==
    \A k \in 1..Len(visited) :
        doc[k].rule \in {"d01", "d02", "d03"} =>
            LET n   == doc[k]
                xs  == Children(n, "x_coord")
                ys  == Children(n, "y_coord")
                ijs == Children(n, "ij_coords")
                op  == Last(commands)
            IN  /\ (\E t \in ConvertedTokens(n) : OutOfRange(t)) =>
                      (Failed(k) /\ error.kind = "SemanticError")
                /\ Decoded(k) =>
                      /\ xs # <<>> => Holds(op.x, xs[1].inner[1].str)
                      /\ ys # <<>> => Holds(op.y, ys[1].inner[1].str)
                      /\ (n.rule = "d01" /\ ijs # <<>>) =>
                            /\ Holds(op.i, ijs[1].inner[1].str)
                            /\ Holds(op.j, ijs[1].inner[2].str)

\* a D01 whose coordinates and offsets are the ends of the i32 range has
\* been decoded, and the node after it fails on a numeral beyond the range
C26_Witness ==
    /\ Len(doc) = 2
    /\ Failed(2)
    /\ doc[1].rule = "d01"
    /\ \E t \in ConvertedTokens(doc[1]) : t = MaxText
    /\ \E t \in ConvertedTokens(doc[1]) : t = MinText
    /\ doc[2].rule \in {"d02", "d03"}
    /\ \E t \in ConvertedTokens(doc[2]) : OutOfRange(t)

\* C27: parse_pair only appends to the command vector it is given: for
\* every node, whether the call succeeds or fails, the commands present
\* before the call are still present afterwards, unchanged and at the same
\* indices.
C27_AppendOnly ==
    [][ pc = "call" =>
          /\ Len(commands') >= Len(commands)
          /\ SubSeq(commands', 1, Len(commands)) = commands ]_vars

\* a call on a second node has failed and the vector still holds the
\* commands of the first node
C27_Witness ==
    /\ pc = "done"
    /\ result = "Err"
    /\ visited = <<1, 2>>
    /\ commands # <<>>
    /\ SubSeq(commands, 1, Len(NodeCommands(doc[1]))) = NodeCommands(doc[1])

(***************************************************************************)
(* The visualizer (visualizer.rs).  An f32 is modelled by the integer it   *)
(* holds: every value explored is an i32 converted with `as f32`.  A draw  *)
(* call is recorded with the Gerber points handed to to_screen_coords and  *)
(* with the colour it was given.                                           *)
(***************************************************************************)
\* largest number of commands in an explored command sequence
MaxCommands == 3

\* spacing of the f32 values around the magnitude a (a >= 0): 1 below 2^24
RECURSIVE Ulp(_, _)
Ulp(a, u) == IF a \div u < 16777216 THEN u ELSE Ulp(a, 2 * u)

\* `x as f32` for an i32 x: the nearest f32, ties to the even significand
ToF32(x) ==
    LET a    == IF x < 0 THEN -x ELSE x
        u    == Ulp(a, 1)
        q    == a \div u
        r    == a % u
        up   == 2 * r > u \/ (2 * r = u /\ q % 2 = 1)
        near == (IF up THEN q + 1 ELSE q) * u
    IN  IF x < 0 THEN -near ELSE near

\* stand-ins for f32::MAX and f32::MIN, beyond every coordinate explored
F32Max == 2^29
F32Min == -(2^29)

EmptyMap == [c \in {} |-> <<>>]

Insert(map, key, value) ==
    [c \in DOMAIN map \cup {key} |-> IF c = key THEN value ELSE map[c]]

new(width, height) ==
    [current_x |-> 0, current_y |-> 0, current_aperture |-> None,
     aperture_definitions |-> EmptyMap, aperture_macros |-> EmptyMap,
     scale_factor |-> [fitted |-> FALSE, width |-> 0, height |-> 0],
     width |-> width, height |-> height,
     background_color |-> "BLACK", drawing_color |-> "GREEN",
     rotation |-> F64Zero, mirror_x |-> FALSE, mirror_y |-> FALSE,
     scale |-> F64(1, 0),
     min_x |-> F32Max, max_x |-> F32Min, min_y |-> F32Max, max_y |-> F32Min,
     unit |-> "Millimeters", dark_polarity |-> TRUE]

update_bounds(v, x, y) ==
    [v EXCEPT !.min_x = IF x < @ THEN x ELSE @,
              !.max_x = IF x > @ THEN x ELSE @,
              !.min_y = IF y < @ THEN y ELSE @,
              !.max_y = IF y > @ THEN y ELSE @]

\* the D01 and D03 arms with an absent axis reset to 0.0 instead of skipped
process_draw_absent_axis_zero(v, op) ==
    LET v1 == IF op.x # None
              THEN [update_bounds(v, ToF32(op.x[1]), v.current_y)
                        EXCEPT !.current_x = ToF32(op.x[1])]
              ELSE [v EXCEPT !.current_x = 0]
    IN  IF op.y # None
        THEN [update_bounds(v1, v1.current_x, ToF32(op.y[1]))
                  EXCEPT !.current_y = ToF32(op.y[1])]
        ELSE [v1 EXCEPT !.current_y = 0]

\* the D01 and D03 arms of process_command: bounds and current point, the
\* x axis first, an absent axis skipped
process_draw(v, op) ==
    LET v1 == IF op.x # None
              THEN [update_bounds(v, ToF32(op.x[1]), v.current_y)
                        EXCEPT !.current_x = ToF32(op.x[1])]
              ELSE v
    IN  IF op.y # None
        THEN [update_bounds(v1, v1.current_x, ToF32(op.y[1]))
                  EXCEPT !.current_y = ToF32(op.y[1])]
        ELSE v1

process_command(v, command) ==
    IF command.cmd = "MO" THEN [v EXCEPT !.unit = command.unit]
    ELSE IF command.cmd = "AD"
    THEN [v EXCEPT !.aperture_definitions = Insert(@, command.code, command.template)]
    ELSE IF command.cmd = "AM"
    THEN [v EXCEPT !.aperture_macros = Insert(@, command.name, command.primitives)]
    ELSE IF command.cmd = "Dnn" THEN [v EXCEPT !.current_aperture = Some(command.code)]
    ELSE IF command.cmd = "D01" THEN process_draw(v, command)
    ELSE IF command.cmd = "D02"
    THEN [v EXCEPT !.current_x = IF command.x # None THEN ToF32(command.x[1]) ELSE @,
                   !.current_y = IF command.y # None THEN ToF32(command.y[1]) ELSE @]
    ELSE IF command.cmd = "D03" THEN process_draw(v, command)
    ELSE IF command.cmd = "LP"
    THEN [v EXCEPT !.dark_polarity = (command.polarity = "Dark")]
    ELSE IF command.cmd = "LM"
    THEN [v EXCEPT !.mirror_x = command.mirroring \in {"X", "XY"},
                   !.mirror_y = command.mirroring \in {"Y", "XY"}]
    ELSE IF command.cmd = "LR" THEN [v EXCEPT !.rotation = command.value]
    ELSE IF command.cmd = "LS" THEN [v EXCEPT !.scale = command.value]
    ELSE v

\* the scale is 1.0 unless the bounds span a positive width and height
calculate_scale_factor(v) ==
    LET width  == v.max_x - v.min_x
        height == v.max_y - v.min_y
    IN  IF width <= 0 \/ height <= 0
        THEN [v EXCEPT !.scale_factor = [fitted |-> FALSE, width |-> 0, height |-> 0]]
        ELSE [v EXCEPT !.scale_factor = [fitted |-> TRUE, width |-> width,
                                         height |-> height]]

\* the colour every draw call takes: from the visualizer's polarity field
color(v) == IF v.dark_polarity THEN v.drawing_color ELSE v.background_color

\* draw_aperture: nothing for an undefined code or a macro aperture
draw_aperture(v, cv, aperture_code, x, y, k) ==
    IF aperture_code \notin DOMAIN v.aperture_definitions THEN cv
    ELSE LET kind == v.aperture_definitions[aperture_code].kind
         IN  IF kind \in {"Circle", "Polygon"}
             THEN Append(cv, [call |-> "draw_circle", from |-> <<x, y>>,
                              to |-> <<x, y>>, color |-> color(v), k |-> k])
             ELSE IF kind = "Rectangle"
             THEN Append(cv, [call |-> "draw_rectangle", from |-> <<x, y>>,
                              to |-> <<x, y>>, color |-> color(v), k |-> k])
             ELSE IF kind = "Obround"
             THEN Append(cv, [call |-> "draw_rectangle_rounded", from |-> <<x, y>>,
                              to |-> <<x, y>>, color |-> color(v), k |-> k])
             ELSE cv

\* the locals of visualize_gerber before its loop
start_locals ==
    [current_x |-> 0, current_y |-> 0, current_aperture |-> None,
     interpolation_mode |-> "Linear"]

\* one turn of the loop of visualize_gerber on the command at position k
visualize_command(v, l, cv, command, k) ==
    LET end_x == IF command.x # None THEN ToF32(command.x[1]) ELSE l.current_x
        end_y == IF command.y # None THEN ToF32(command.y[1]) ELSE l.current_y
        moved == [l EXCEPT !.current_x = end_x, !.current_y = end_y]
    IN  IF command.cmd = "D01"
        THEN IF l.current_aperture = None THEN [locals |-> l, canvas |-> cv]
             ELSE IF l.interpolation_mode = "Linear"
             THEN [locals |-> moved,
                   canvas |-> Append(cv, [call |-> "draw_line_ex",
                                          from |-> <<l.current_x, l.current_y>>,
                                          to |-> <<end_x, end_y>>,
                                          color |-> color(v), k |-> k])]
             ELSE IF command.i # None /\ command.j # None
             THEN [locals |-> moved,
                   canvas |-> Append(cv, [call |-> "draw_ring_lines",
                                          from |-> <<l.current_x, l.current_y>>,
                                          to |-> <<end_x, end_y>>,
                                          color |-> color(v), k |-> k])]
             ELSE [locals |-> moved, canvas |-> cv]
        ELSE IF command.cmd = "D02"
        THEN [locals |-> moved, canvas |-> cv]
        ELSE IF command.cmd = "D03"
        THEN IF l.current_aperture = None THEN [locals |-> l, canvas |-> cv]
             ELSE [locals |-> moved,
                   canvas |-> draw_aperture(v, cv, l.current_aperture[1],
                                            end_x, end_y, k)]
        ELSE IF command.cmd = "Dnn"
        THEN [locals |-> [l EXCEPT !.current_aperture = Some(command.code)],
              canvas |-> cv]
        ELSE IF command.cmd = "G01"
        THEN [locals |-> [l EXCEPT !.interpolation_mode = "Linear"], canvas |-> cv]
        ELSE IF command.cmd = "G02"
        THEN [locals |-> [l EXCEPT !.interpolation_mode = "ClockwiseArc"],
              canvas |-> cv]
        ELSE IF command.cmd = "G03"
        THEN [locals |-> [l EXCEPT !.interpolation_mode = "CounterClockwiseArc"],
              canvas |-> cv]
        ELSE [locals |-> l, canvas |-> cv]

(***************************************************************************)
(* Inputs of the visualizer: command sequences as the parser produces them.*)
(***************************************************************************)
\* the first integer that `as f32` does not keep: 2^24 + 1
Beyond24 == 16777217

VisCommands ==
    { [cmd |-> "D01", x |-> Some(5), y |-> None, i |-> None, j |-> None],
      [cmd |-> "D01", x |-> None, y |-> Some(7), i |-> Some(1), j |-> Some(0)],
      [cmd |-> "D02", x |-> Some(-3), y |-> Some(2)],
      [cmd |-> "D03", x |-> Some(Beyond24), y |-> None],
      [cmd |-> "D03", x |-> None, y |-> Some(-4)],
      [cmd |-> "Dnn", code |-> 10],
      [cmd |-> "AD", code |-> 10,
       template |-> [kind |-> "Circle", diameter |-> F64(5, -1), hole |-> None]],
      [cmd |-> "LP", polarity |-> "Clear"],
      [cmd |-> "LP", polarity |-> "Dark"],
      [cmd |-> "G02"] }

VisSequences == SeqsUpTo(VisCommands, MaxCommands)

(***************************************************************************)
(* The two public walks of a visualizer: process_commands on a new         *)
(* visualizer, then visualize_gerber over the same commands.               *)
(***************************************************************************)
InitVis ==
    /\ pc = "process"
    /\ commands \in VisSequences
    /\ idx = 1
    /\ visualizer = new(800, 600)
    /\ locals = start_locals
    /\ canvas = <<>>
    /\ doc = <<>>
    /\ origins = <<>>
    /\ visited = <<>>
    /\ result = "none"
    /\ ret = None
    /\ error = NoError

\* one turn of the loop of process_commands
ProcessCommand ==
    /\ pc = "process"
    /\ idx <= Len(commands)
    /\ visualizer' = process_command(visualizer, commands[idx])
    /\ idx' = idx + 1
    /\ UNCHANGED <<pc, doc, commands, origins, visited, result, ret, error,
                   locals, canvas>>

\* the end of process_commands; visualize_gerber then starts on the commands
CalculateScaleFactor ==
    /\ pc = "process"
    /\ idx > Len(commands)
    /\ visualizer' = calculate_scale_factor(visualizer)
    /\ locals' = start_locals
    /\ idx' = 1
    /\ pc' = "visualize"
    /\ UNCHANGED <<doc, commands, origins, visited, result, ret, error, canvas>>

\* one turn of the loop of visualize_gerber
VisualizeCommand ==
    /\ pc = "visualize"
    /\ idx <= Len(commands)
    /\ LET r == visualize_command(visualizer, locals, canvas, commands[idx], idx)
       IN  /\ locals' = r.locals
           /\ canvas' = r.canvas
    /\ idx' = idx + 1
    /\ UNCHANGED <<pc, doc, commands, origins, visited, result, ret, error,
                   visualizer>>

\* visualize_gerber returns
VisualizeDone ==
    /\ pc = "visualize"
    /\ idx > Len(commands)
    /\ pc' = "drawn"
    /\ UNCHANGED <<doc, idx, commands, origins, visited, result, ret, error,
                   visualizer, locals, canvas>>

NextVis == ProcessCommand \/ CalculateScaleFactor \/ VisualizeCommand \/ VisualizeDone

SpecVis == InitVis /\ [][NextVis]_vars

(***************************************************************************)
(* Properties of the visualizer's current point and of what it draws.      *)
(***************************************************************************)
IsCoordinateOperation(command) == command.cmd \in {"D01", "D02", "D03"}

\* the x of the last operation among the first n commands that carries an
\* x, 0 if none does
RECURSIVE LastX(_, _)
LastX(cmds, n) ==
    IF n = 0 THEN 0
    ELSE IF IsCoordinateOperation(cmds[n]) /\ cmds[n].x # None THEN cmds[n].x[1]
    ELSE LastX(cmds, n - 1)

RECURSIVE LastY(_, _)
LastY(cmds, n) ==
    IF n = 0 THEN 0
    ELSE IF IsCoordinateOperation(cmds[n]) /\ cmds[n].y # None THEN cmds[n].y[1]
    ELSE LastY(cmds, n - 1)

\* how many commands process_commands has walked
Processed == IF pc = "process" THEN idx - 1 ELSE Len(commands)

RECURSIVE AfterProcessing(_, _)
AfterProcessing(cmds, n) ==
    IF n = 0 THEN new(800, 600)
    ELSE process_command(AfterProcessing(cmds, n - 1), cmds[n])

\* C29: after every command that visualize_gerber has replayed, its current
\* point equals the current point process_command has after the same
\* command, whether or not an aperture has been selected
C29_ReplayedPointMatches ==
    pc = "visualize" =>
        /\ locals.current_x = AfterProcessing(commands, idx - 1).current_x
        /\ locals.current_y = AfterProcessing(commands, idx - 1).current_y

\* the polarity set by the most recent LP before position k, dark if none
RECURSIVE PolarityBefore(_, _)
PolarityBefore(cmds, k) ==
    IF k <= 1 THEN "Dark"
    ELSE IF cmds[k - 1].cmd = "LP" THEN cmds[k - 1].polarity
    ELSE PolarityBefore(cmds, k - 1)

\* the colour a mark of the given polarity takes
ColorOf(v, polarity) ==
    IF polarity = "Dark" THEN v.drawing_color ELSE v.background_color

\* C30: every D01 and D03 that visualize_gerber draws is drawn with the
\* polarity of the most recent LP command before it (dark when none is),
\* never with the polarity of an LP command that comes after it
C30_PolarityInOrder ==
    pc \in {"visualize", "drawn"} =>
        \A n \in 1..Len(canvas) :
            canvas[n].color = ColorOf(visualizer,
                                      PolarityBefore(commands, canvas[n].k))

=============================================================================
